---------------------------- MODULE Spec2Model ----------------------------
(***************************************************************************)
(* A model of the mere build engine (github.com/jhuntwork/mere): recipe    *)
(* ingestion and templating (spec.go), source acquisition and verification *)
(* (source.go, fetch.go), working tree materialisation, stage execution    *)
(* and cleanup (build.go).                                                 *)
(*                                                                         *)
(* A path is a sequence of components; the empty sequence is the empty     *)
(* string "".  A text (a URL, a script, a template) is a sequence of       *)
(* pieces.  A file system is a function from the existing paths to their   *)
(* entries.  A hex string is a sequence of one-character strings.          *)
(***************************************************************************)
EXTENDS Naturals, Sequences, FiniteSets, TLC

VARIABLES
    fs,            \* the file system: path -> entry
    Sources,       \* Spec.Sources, each with URL, B3Sum, LocalName, protocol, savePath
    sourceCache,   \* Spec.sourceCache
    workingDir,    \* Spec.workingDir ("" = <<>> until createWorkingDir succeeded)
    buildContext,  \* Spec.buildContext
    buildOrder,    \* Spec.buildOrder: the three stages, name and cmd
    pc,            \* position of the caller / of buildSteps
    idx,           \* loop index of the running loop (fetchSources, stage loop)
    errors,        \* the error list fetchSources is collecting
    result,        \* what buildSteps returned (NotReturned until it returns)
    log,           \* history: one entry per call of fetchSource, extract, symlink, stage, Cleanup
    recipe,        \* the other serialized fields of the Spec: Name, Version, Release, Build, ...
    procs          \* concurrent fetchSource invocations: the file system they started
                   \* on and the position, environment and result of each

vars == <<fs, Sources, sourceCache, workingDir, buildContext, buildOrder,
          pc, idx, errors, result, log, recipe, procs>>

----------------------------------------------------------------------------
(* Bounds of the model *)

MaxSources == 2      \* sources in a recipe
MaxCalls == 2        \* successive fetchSource calls on one source (SpecFetch)
DigestSize == 1      \* bytes of a digest (blake3: 32); its hex form has twice as many digits

(* Program constants *)

errorBoundary == 400

----------------------------------------------------------------------------
(* Paths *)

Parent(p) == SubSeq(p, 1, Len(p) - 1)

\* path.Base: the last element of the path; "." for the empty path
Base(p) == IF p = <<>> THEN "." ELSE p[Len(p)]

\* strings.Join([]string{dir, name}, "/")
Join(dir, name) == Append(dir, name)

IsPrefix(p, q) == Len(p) <= Len(q) /\ SubSeq(q, 1, Len(p)) = p

\* filepath.Clean of an absolute path: "." and "/" are dropped, ".." drops
\* the component before it
RECURSIVE Clean(_)
Clean(p) ==
    IF p = <<>> THEN <<>>
    ELSE LET c == Clean(Parent(p))
             last == p[Len(p)]
         IN  IF last \in {".", "/", ""} THEN c
             ELSE IF last = ".." THEN Parent(c)
             ELSE Append(c, last)

\* filepath.Abs of a rooted path: the cleaned path
Abs(p) == Clean(p)

----------------------------------------------------------------------------
(* File system entries and the system calls the code uses *)

Dir == [kind |-> "dir", data |-> "", target |-> <<>>]
File(c) == [kind |-> "file", data |-> c, target |-> <<>>]
Link(t) == [kind |-> "link", data |-> "", target |-> t]

\* A nil *FileInfo
Nil == [kind |-> "nil", data |-> "", target |-> <<>>]

Exists(f, p) == p \in DOMAIN f

IsDir(f, p) == Exists(f, p) /\ f[p].kind = "dir"

IsFile(f, p) == Exists(f, p) /\ f[p].kind = "file"

Put(f, p, e) == [q \in DOMAIN f \cup {p} |-> IF q = p THEN e ELSE f[q]]

\* os.Stat without following a final link: "ok", "ENOENT" or "ENOTDIR"
StatErr(f, p) ==
    IF p = <<>> THEN "ENOENT"
    ELSE IF \E k \in 1..(Len(p) - 1) : Exists(f, SubSeq(p, 1, k)) /\ ~IsDir(f, SubSeq(p, 1, k))
    THEN "ENOTDIR"
    ELSE IF Exists(f, p) THEN "ok" ELSE "ENOENT"

\* os.MkdirAll: creates the directory and every missing ancestor
MkdirAll(f, p) ==
    IF \E k \in 1..Len(p) : Exists(f, SubSeq(p, 1, k)) /\ ~IsDir(f, SubSeq(p, 1, k))
    THEN [fs |-> f, err |-> "ENOTDIR"]
    ELSE [fs |-> [q \in DOMAIN f \cup {SubSeq(p, 1, k) : k \in 1..Len(p)} |->
                    IF Exists(f, q) THEN f[q] ELSE Dir],
          err |-> "ok"]

\* os.Mkdir: creates one directory below an existing parent
Mkdir(f, p) ==
    IF Exists(f, p) THEN [fs |-> f, err |-> "EEXIST"]
    ELSE IF Len(p) > 1 /\ ~IsDir(f, Parent(p))
    THEN [fs |-> f, err |-> IF Exists(f, Parent(p)) THEN "ENOTDIR" ELSE "ENOENT"]
    ELSE [fs |-> Put(f, p, Dir), err |-> "ok"]

\* os.Create: creates or truncates a regular file below an existing directory
Create(f, p) ==
    IF p = <<>> \/ (Len(p) > 1 /\ ~Exists(f, Parent(p))) THEN [fs |-> f, err |-> "ENOENT"]
    ELSE IF Len(p) > 1 /\ ~IsDir(f, Parent(p)) THEN [fs |-> f, err |-> "ENOTDIR"]
    ELSE IF IsDir(f, p) THEN [fs |-> f, err |-> "EISDIR"]
    ELSE [fs |-> Put(f, p, File("")), err |-> "ok"]

\* A symlink that replaces what is at name
SymlinkReplace(f, target, name) ==
    IF Len(name) > 1 /\ ~IsDir(f, Parent(name)) THEN [fs |-> f, err |-> "ENOENT"]
    ELSE [fs |-> Put(f, name, Link(target)), err |-> "ok"]

\* os.Symlink(target, name): fails when name exists
Symlink(f, target, name) ==
    IF Exists(f, name) THEN [fs |-> f, err |-> "EEXIST"]
    ELSE IF Len(name) > 1 /\ ~IsDir(f, Parent(name)) THEN [fs |-> f, err |-> "ENOENT"]
    ELSE [fs |-> Put(f, name, Link(target)), err |-> "ok"]

\* A RemoveAll without the test for the empty path: "" is a prefix of every path
RemoveAllNoEmptyCheck(f, p) == [q \in {r \in DOMAIN f : ~IsPrefix(p, r)} |-> f[q]]

\* os.RemoveAll: removes path and everything below it; "" removes nothing;
\* links are removed, never followed
RemoveAll(f, p) ==
    IF p = <<>> THEN f
    ELSE [q \in {r \in DOMAIN f : ~IsPrefix(p, r)} |-> f[q]]

----------------------------------------------------------------------------
(* Errors.  Every error is a record with a kind; NoErr is Go's nil. *)

NoErr == [kind |-> "nil", code |-> 0, expected |-> <<>>, actual |-> <<>>]

Err(kind) == [kind |-> kind, code |-> 0, expected |-> <<>>, actual |-> <<>>]

IsErr(e) == e.kind # "nil"


----------------------------------------------------------------------------
(* Digest service: computeB3Sum, checkB3SumFromFile *)

\* The file contents of the model.  "" is a file just created, "trunc" what
\* an interrupted copy leaves behind.
Contents == {"dirTar", "flatTar", "fileTar", "emptyTar", "linkTar", "danglingTar",
             "text", "trunc", ""}

\* blake3 of a content, as DigestSize bytes; distinct contents have distinct digests
blake3(c) ==
    LET first == CASE c = "dirTar"  -> 171
                   [] c = "flatTar" -> 205
                   [] c = "text"    -> 30
                   [] c = "trunc"   -> 79
                   [] c = "fileTar" -> 18
                   [] c = "emptyTar" -> 52
                   [] c = "linkTar" -> 86
                   [] c = "danglingTar" -> 120
                   [] OTHER         -> 175
    IN  [i \in 1..DigestSize |-> IF i = 1 THEN first ELSE 10 * i]

HexDigits == <<"0", "1", "2", "3", "4", "5", "6", "7", "8", "9", "a", "b", "c", "d", "e", "f">>

\* hex.EncodeToString: two lower-case digits per byte
EncodeToString(bytes) ==
    [i \in 1..(2 * Len(bytes)) |->
        IF i % 2 = 1 THEN HexDigits[(bytes[(i + 1) \div 2] \div 16) + 1]
                     ELSE HexDigits[(bytes[i \div 2] % 16) + 1]]

computeB3Sum(c) == EncodeToString(blake3(c))

\* A digest check that opens the file and compares nothing
checkB3SumNoCompare(f, filename, b3sum) ==
    IF StatErr(f, filename) # "ok" THEN Err("open")
    ELSE IF ~IsFile(f, filename) THEN Err("read")
    ELSE NoErr

\* source.checkB3SumFromFile(filename, b3sum): sum != b3sum compares the strings as they are
checkB3SumFromFile(f, filename, b3sum) ==
    IF StatErr(f, filename) # "ok" THEN Err("open")
    ELSE IF ~IsFile(f, filename) THEN Err("read")
    ELSE IF computeB3Sum(f[filename].data) # b3sum
         THEN [kind |-> "b3sum mismatch", code |-> 0, expected |-> b3sum,
               actual |-> computeB3Sum(f[filename].data)]
    ELSE NoErr

----------------------------------------------------------------------------
(* Filesystem helper: ensureDir *)

\* The mode ensureDir gives the creator: 0o755
DirMode == 493

\* The directory creator md: os.MkdirAll (all) or os.Mkdir, or a creator
\* that fails (permissions, full disk, a mock) and creates nothing
md(all, fault, f, path) ==
    IF fault THEN [fs |-> f, err |-> "EACCES"]
    ELSE IF all THEN MkdirAll(f, path) ELSE Mkdir(f, path)

\* The error of the creator, as the creator returned it
MkdirError(errno) ==
    [kind |-> "mkdir", code |-> 0, expected |-> <<>>, actual |-> <<>>, errno |-> errno]

\* An ensureDir that creates the directory before it looks at the path
ensureDirCreateFirst(all, fault, f, path) ==
    LET r == md(all, fault, f, path)
    IN  [fs |-> r.fs,
         err |-> IF r.err # "ok" THEN MkdirError(r.err) ELSE NoErr,
         calls |-> << [path |-> path, perm |-> DirMode] >>]

\* ensureDir(md, path): all = TRUE for md = os.MkdirAll, FALSE for os.Mkdir;
\* calls are the calls of md it made
ensureDir(all, fault, f, path) ==
    LET st == StatErr(f, path)
        r == md(all, fault, f, path)
    IN  IF st = "ENOENT"
        THEN [fs |-> r.fs,
              err |-> IF r.err # "ok" THEN MkdirError(r.err) ELSE NoErr,
              calls |-> << [path |-> path, perm |-> DirMode] >>]
        ELSE IF st # "ok" THEN [fs |-> f, err |-> Err("stat"), calls |-> <<>>]
        ELSE IF ~IsDir(f, path) THEN [fs |-> f, err |-> Err("not a directory"), calls |-> <<>>]
        ELSE [fs |-> f, err |-> NoErr, calls |-> <<>>]

----------------------------------------------------------------------------
(* Transport layer: fetchFile, fetchHTTP *)

\* fetchFile(c, src, dest): open src, create dest, copy; copyFault = the copy fails
fetchFile(copyFault, f, src, dest) ==
    IF StatErr(f, src) # "ok" THEN [fs |-> f, err |-> Err("open")]
    ELSE LET d == Create(f, dest)
         IN  IF d.err # "ok" THEN [fs |-> f, err |-> Err("create")]
             ELSE IF ~IsFile(f, src) THEN [fs |-> d.fs, err |-> Err("read")]
             ELSE IF copyFault THEN [fs |-> Put(d.fs, dest, File("trunc")), err |-> Err("read")]
             ELSE [fs |-> Put(d.fs, dest, File(f[src].data)), err |-> NoErr]

\* The answers of the HTTP client (doer.Do): a transport error, or a status
\* with a body whose read may fail
Responses ==
    {[doErr |-> TRUE, status |-> 0, body |-> "", readErr |-> FALSE]}
    \cup [doErr : {FALSE}, status : {399, 400, 500}, body : {""}, readErr : {FALSE}]
    \cup [doErr : {FALSE}, status : {200}, body : {"dirTar", "text"}, readErr : BOOLEAN]

\* http.StatusText(code)
StatusText(code) ==
    CASE code = 200 -> "OK"
      [] code = 400 -> "Bad Request"
      [] code = 500 -> "Internal Server Error"
      [] OTHER      -> ""

\* errHTTPcode, "<code> <text>"
HTTPError(code) ==
    [kind |-> "http", code |-> code, expected |-> <<>>, actual |-> <<>>,
     text |-> StatusText(code)]

\* A fetchHTTP that creates the destination before it looks at the answer
fetchHTTPCreateFirst(resp, f, dest) ==
    LET d == Create(f, dest)
    IN  IF d.err # "ok" THEN [fs |-> f, err |-> Err("create")]
        ELSE IF resp.doErr THEN [fs |-> d.fs, err |-> Err("transport")]
        ELSE IF resp.status >= errorBoundary THEN [fs |-> d.fs, err |-> HTTPError(resp.status)]
        ELSE IF resp.readErr THEN [fs |-> Put(d.fs, dest, File("trunc")), err |-> Err("read")]
        ELSE [fs |-> Put(d.fs, dest, File(resp.body)), err |-> NoErr]

\* fetchHTTP(d, src, dest) where resp is what d.Do answers for src
fetchHTTP(resp, f, dest) ==
    IF resp.doErr THEN [fs |-> f, err |-> Err("transport")]
    ELSE IF resp.status >= errorBoundary
    THEN [fs |-> f, err |-> HTTPError(resp.status)]
    ELSE LET d == Create(f, dest)
         IN  IF d.err # "ok" THEN [fs |-> f, err |-> Err("create")]
             ELSE IF resp.readErr THEN [fs |-> Put(d.fs, dest, File("trunc")), err |-> Err("read")]
             ELSE [fs |-> Put(d.fs, dest, File(resp.body)), err |-> NoErr]

httpsProto == "https"

\* errBadProtoScheme, "unsupported protocol scheme: <scheme>"
BadProtoScheme(scheme) ==
    [kind |-> "bad protocol scheme", code |-> 0, expected |-> <<>>, actual |-> <<>>,
     scheme |-> scheme]

\* u.String() of a url.URL with a scheme and a path
String(u) == IF u.Scheme = "" THEN u.Path ELSE <<u.Scheme, ":">> \o u.Path

\* No transport was called
NoCall == [fn |-> "none", src |-> <<>>, dest |-> <<>>]

\* The transport Mere.fetch calls for a scheme, with its arguments
Dispatch(u, destPath) ==
    IF u.Scheme = "file" THEN [fn |-> "fetchFile", src |-> u.Path, dest |-> destPath]
    ELSE IF u.Scheme \in {"http", httpsProto}
    THEN [fn |-> "fetchHTTP", src |-> String(u), dest |-> destPath]
    ELSE NoCall

\* A fetch that calls the transport although ensureDir failed
fetchIgnoreEnsureDir(env, u, destFile, f) ==
    LET destPath == Abs(destFile)
        ed == ensureDir(TRUE, env.mkFault, f, Parent(destPath))
        call == Dispatch(u, destPath)
        r == IF call.fn = "fetchFile" THEN fetchFile(env.copyFault, ed.fs, call.src, call.dest)
             ELSE fetchHTTP(env.resp, ed.fs, call.dest)
    IN  IF call.fn = "none"
        THEN [fs |-> ed.fs, err |-> BadProtoScheme(u.Scheme), call |-> NoCall, ensured |-> ed]
        ELSE [fs |-> r.fs, err |-> r.err, call |-> call, ensured |-> ed]

\* Mere.fetch(u, destFile): the parent directory of the destination is
\* ensured, then the scheme decides the transport; call is the transport
\* called, ensured what ensureDir returned
fetch(env, u, destFile, f) ==
    LET destPath == Abs(destFile)
        ed == ensureDir(TRUE, env.mkFault, f, Parent(destPath))
        call == Dispatch(u, destPath)
        r == IF call.fn = "fetchFile" THEN fetchFile(env.copyFault, ed.fs, call.src, call.dest)
             ELSE fetchHTTP(env.resp, ed.fs, call.dest)
    IN  IF IsErr(ed.err)
        THEN [fs |-> ed.fs, err |-> ed.err, call |-> NoCall, ensured |-> ed]
        ELSE IF call.fn = "none"
        THEN [fs |-> ed.fs, err |-> BadProtoScheme(u.Scheme), call |-> NoCall, ensured |-> ed]
        ELSE [fs |-> r.fs, err |-> r.err, call |-> call, ensured |-> ed]

----------------------------------------------------------------------------
(* Source fetcher: validateSource, fetchSource *)

fileProto == "file"
httpProto == "http"

\* A URL as text: the scheme and ":" when there is a scheme, then the
\* components of the path ("://blergh" is <<":", "blergh">>)
URLText(scheme, path) == IF scheme = "" THEN path ELSE <<scheme, ":">> \o path

\* url.Parse(text): the scheme and the path; a text that starts with ':' has
\* no protocol scheme
Parse(text) ==
    IF text # <<>> /\ text[1] = ":"
    THEN [Scheme |-> "", Path |-> <<>>, err |-> Err("missing protocol scheme")]
    ELSE IF Len(text) >= 2 /\ text[2] = ":"
    THEN [Scheme |-> text[1], Path |-> SubSeq(text, 3, Len(text)), err |-> NoErr]
    ELSE [Scheme |-> "", Path |-> text, err |-> NoErr]

\* A Source as it is deserialized from the recipe
RawSource(scheme, path, b3sum, localName) ==
    [URL |-> URLText(scheme, path),
     B3Sum |-> b3sum, LocalName |-> localName, protocol |-> "", savePath |-> <<>>]

\* A test of the name that does not resolve "..": only the empty name and "/"
NoPathElementNoClean(name) == Base(name) \in {".", "/", ""}

\* filepath.Abs("/" + path.Base(name)) == "/"
NoPathElement(name) == Base(name) \in {".", "..", "/", ""}

\* errSource, "unsupported protocol scheme: <scheme>"
UnsupportedScheme(scheme) ==
    [kind |-> "unsupported protocol scheme", code |-> 0, expected |-> <<>>, actual |-> <<>>,
     scheme |-> scheme]

\* A validateSource that takes any other scheme as the protocol
validateSourceAnyScheme(source) ==
    LET parsedURL == Parse(source.URL)
        tagged == [source EXCEPT
                     !.protocol = IF parsedURL.Scheme \in {"", fileProto} THEN fileProto
                                  ELSE IF parsedURL.Scheme \in {httpProto, "https"} THEN httpProto
                                  ELSE parsedURL.Scheme,
                     !.LocalName = IF source.LocalName = <<>>
                                   THEN parsedURL.Path ELSE source.LocalName]
    IN  IF IsErr(parsedURL.err) THEN [source |-> source, err |-> parsedURL.err]
        ELSE IF NoPathElement(tagged.LocalName)
        THEN [source |-> tagged, err |-> Err("no path element detected")]
        ELSE [source |-> tagged, err |-> NoErr]

\* source.validateSource()
validateSource(source) ==
    LET parsedURL == Parse(source.URL)
        tagged == [source EXCEPT
                     !.protocol = IF parsedURL.Scheme \in {"", fileProto}
                                  THEN fileProto ELSE httpProto,
                     !.LocalName = IF source.LocalName = <<>>
                                   THEN parsedURL.Path ELSE source.LocalName]
    IN  IF IsErr(parsedURL.err) THEN [source |-> source, err |-> parsedURL.err]
        ELSE IF parsedURL.Scheme \notin {"", fileProto, httpProto, "https"}
        THEN [source |-> source, err |-> UnsupportedScheme(parsedURL.Scheme)]
        ELSE IF NoPathElement(tagged.LocalName)
        THEN [source |-> tagged, err |-> Err("no path element detected")]
        ELSE [source |-> tagged, err |-> NoErr]

\* What the environment does during one fetchSource call
FetchEnvs == [mkFault : BOOLEAN, copyFault : BOOLEAN, resp : Responses]

\* A cache miss that removes the fetched file when the digest check fails
fetchMissRemoveOnMismatch(env, source, f, savePath) ==
    LET r == IF source.protocol = fileProto
             THEN fetchFile(env.copyFault, f, source.LocalName, savePath)
             ELSE fetchHTTP(env.resp, f, savePath)
        chk == checkB3SumFromFile(r.fs, savePath, source.B3Sum)
    IN  IF source.protocol \notin {fileProto, httpProto}
        THEN [fs |-> f, err |-> Err("unsupported or missing protocol scheme"),
              transport |-> "none", net |-> 0]
        ELSE [fs |-> IF ~IsErr(r.err) /\ IsErr(chk) THEN RemoveAll(r.fs, savePath) ELSE r.fs,
              err |-> IF IsErr(r.err) THEN r.err ELSE chk,
              transport |-> source.protocol,
              net |-> IF source.protocol = httpProto THEN 1 ELSE 0]

\* fetchSource, the cache miss: the switch on source.protocol, then the digest check
fetchMiss(env, source, f, savePath) ==
    IF source.protocol = fileProto
    THEN LET r == fetchFile(env.copyFault, f, source.LocalName, savePath)
         IN  [fs |-> r.fs,
              err |-> IF IsErr(r.err) THEN r.err
                      ELSE checkB3SumFromFile(r.fs, savePath, source.B3Sum),
              transport |-> fileProto, net |-> 0]
    ELSE IF source.protocol = httpProto
    THEN LET r == fetchHTTP(env.resp, f, savePath)
         IN  [fs |-> r.fs,
              err |-> IF IsErr(r.err) THEN r.err
                      ELSE checkB3SumFromFile(r.fs, savePath, source.B3Sum),
              transport |-> httpProto, net |-> 1]
    ELSE [fs |-> f, err |-> Err("unsupported or missing protocol scheme"),
          transport |-> "none", net |-> 0]

\* A fetchSource that fetches again when the cached file fails the check
fetchSourceRefetch(env, cache, source, f) ==
    LET ed == ensureDir(TRUE, env.mkFault, f, cache)
        savePath == Join(cache, Base(source.LocalName))
        saved == [source EXCEPT !.savePath = savePath]
        miss == fetchMiss(env, source, ed.fs, savePath)
        hit == StatErr(ed.fs, savePath) = "ok"
               /\ ~IsErr(checkB3SumFromFile(ed.fs, savePath, source.B3Sum))
    IN  IF IsErr(ed.err)
        THEN [fs |-> ed.fs, source |-> source, err |-> ed.err, transport |-> "none", net |-> 0]
        ELSE IF hit
        THEN [fs |-> ed.fs, source |-> saved, err |-> NoErr, transport |-> "none", net |-> 0]
        ELSE [fs |-> miss.fs, source |-> saved, err |-> miss.err,
              transport |-> miss.transport, net |-> miss.net]

\* A fetchSource that never looks for the cached file
fetchSourceNoCache(env, cache, source, f) ==
    LET ed == ensureDir(TRUE, env.mkFault, f, cache)
        savePath == Join(cache, Base(source.LocalName))
        saved == [source EXCEPT !.savePath = savePath]
        miss == fetchMiss(env, source, ed.fs, savePath)
    IN  IF IsErr(ed.err)
        THEN [fs |-> ed.fs, source |-> source, err |-> ed.err, transport |-> "none", net |-> 0]
        ELSE [fs |-> miss.fs, source |-> saved, err |-> miss.err,
              transport |-> miss.transport, net |-> miss.net]

\* A fetchSource that keeps the base name as the local name
fetchSourceRenames(env, cache, source, f) ==
    LET ed == ensureDir(TRUE, env.mkFault, f, cache)
        savePath == Join(cache, Base(source.LocalName))
        saved == [source EXCEPT !.savePath = savePath, !.LocalName = <<Base(source.LocalName)>>]
        miss == fetchMiss(env, source, ed.fs, savePath)
    IN  IF IsErr(ed.err)
        THEN [fs |-> ed.fs, source |-> source, err |-> ed.err, transport |-> "none", net |-> 0]
        ELSE IF StatErr(ed.fs, savePath) = "ok"
        THEN [fs |-> ed.fs, source |-> saved,
              err |-> checkB3SumFromFile(ed.fs, savePath, source.B3Sum),
              transport |-> "none", net |-> 0]
        ELSE [fs |-> miss.fs, source |-> saved, err |-> miss.err,
              transport |-> miss.transport, net |-> miss.net]

\* A fetchSource that saves below the cache under the whole local name
fetchSourceNoBase(env, cache, source, f) ==
    LET ed == ensureDir(TRUE, env.mkFault, f, cache)
        savePath == cache \o source.LocalName
        saved == [source EXCEPT !.savePath = savePath]
        miss == fetchMiss(env, source, ed.fs, savePath)
    IN  IF IsErr(ed.err)
        THEN [fs |-> ed.fs, source |-> source, err |-> ed.err, transport |-> "none", net |-> 0]
        ELSE IF StatErr(ed.fs, savePath) = "ok"
        THEN [fs |-> ed.fs, source |-> saved,
              err |-> checkB3SumFromFile(ed.fs, savePath, source.B3Sum),
              transport |-> "none", net |-> 0]
        ELSE [fs |-> miss.fs, source |-> saved, err |-> miss.err,
              transport |-> miss.transport, net |-> miss.net]

\* source.fetchSource(spec).  Beside the new file system, the source (savePath
\* assigned) and the error, the result says which transport was invoked and
\* how many HTTP requests were made.
fetchSource(env, cache, source, f) ==
    LET ed == ensureDir(TRUE, env.mkFault, f, cache)
        savePath == Join(cache, Base(source.LocalName))
        saved == [source EXCEPT !.savePath = savePath]
        miss == fetchMiss(env, source, ed.fs, savePath)
    IN  IF IsErr(ed.err)
        THEN [fs |-> ed.fs, source |-> source, err |-> ed.err, transport |-> "none", net |-> 0]
        ELSE IF StatErr(ed.fs, savePath) = "ok"
        THEN [fs |-> ed.fs, source |-> saved,
              err |-> checkB3SumFromFile(ed.fs, savePath, source.B3Sum),
              transport |-> "none", net |-> 0]
        ELSE [fs |-> miss.fs, source |-> saved, err |-> miss.err,
              transport |-> miss.transport, net |-> miss.net]

\* An os.MkdirAll that returns the error of os.Mkdir as it is
mkdirFailedNoLstat(f, path, errno) == errno

\* os.MkdirAll, after os.Mkdir failed with errno: it looks at the path again
\* (Lstat), and a directory that is there by now is no error
mkdirFailed(f, path, errno) == IF IsDir(f, path) THEN "ok" ELSE errno

\* An invocation of fetchSource that runs beside others: its position, the
\* level os.MkdirAll is at, the pending errno, its environment, its result
Started(env) == [pc |-> "stat", n |-> 0, errno |-> "", env |-> env, err |-> NoErr]

\* One system call of an invocation of source.fetchSource(spec), on the file
\* system as it is at that moment.  ensureDir: os.Stat, then os.MkdirAll,
\* which stats the path and its ancestors upwards until one exists and
\* makes the missing ones downwards; os.Stat(savePath); the transport: open
\* or request, create, copy in two writes; the digest check.
fetchSourceStep(pr, source, cache, f) ==
    LET savePath == Join(cache, Base(source.LocalName))
        prefix == SubSeq(cache, 1, pr.n)
        fault == IF source.protocol = fileProto THEN pr.env.copyFault ELSE pr.env.resp.readErr
        content == IF source.protocol = fileProto THEN f[source.LocalName].data
                   ELSE pr.env.resp.body
        at(to) == [proc |-> [pr EXCEPT !.pc = to], source |-> source, fs |-> f]
        return(err) == [proc |-> [pr EXCEPT !.pc = "done", !.err = err],
                        source |-> source, fs |-> f]
        made(g) == [proc |-> IF pr.n = Len(cache) THEN [pr EXCEPT !.pc = "statSave"]
                             ELSE [pr EXCEPT !.pc = "mkdirAll.mkdir", !.n = pr.n + 1],
                    source |-> source, fs |-> g]
    IN  CASE pr.pc = "stat" ->
                IF StatErr(f, cache) = "ENOENT"
                THEN [proc |-> [pr EXCEPT !.pc = "mkdirAll.stat", !.n = Len(cache)],
                      source |-> source, fs |-> f]
                ELSE IF StatErr(f, cache) # "ok" THEN return(Err("stat"))
                ELSE IF ~IsDir(f, cache) THEN return(Err("not a directory"))
                ELSE at("statSave")
          [] pr.pc = "mkdirAll.stat" ->
                IF StatErr(f, prefix) = "ok"
                THEN IF IsDir(f, prefix) THEN made(f) ELSE return(MkdirError("ENOTDIR"))
                ELSE IF pr.n > 1
                THEN [proc |-> [pr EXCEPT !.n = pr.n - 1], source |-> source, fs |-> f]
                ELSE at("mkdirAll.mkdir")
          [] pr.pc = "mkdirAll.mkdir" ->
                LET r == Mkdir(f, prefix)
                IN  IF r.err = "ok" THEN made(r.fs)
                    ELSE [proc |-> [pr EXCEPT !.pc = "mkdirAll.lstat", !.errno = r.err],
                          source |-> source, fs |-> f]
          [] pr.pc = "mkdirAll.lstat" ->
                IF mkdirFailed(f, prefix, pr.errno) = "ok" THEN made(f)
                ELSE return(MkdirError(pr.errno))
          [] pr.pc = "statSave" ->
                [proc |-> [pr EXCEPT !.pc =
                              IF StatErr(f, savePath) = "ok" THEN "verify"
                              ELSE IF source.protocol = fileProto THEN "open"
                              ELSE IF source.protocol = httpProto THEN "do"
                              ELSE "proto"],
                 source |-> [source EXCEPT !.savePath = savePath], fs |-> f]
          [] pr.pc = "proto" -> return(Err("unsupported or missing protocol scheme"))
          [] pr.pc = "open" ->
                IF StatErr(f, source.LocalName) # "ok" THEN return(Err("open")) ELSE at("create")
          [] pr.pc = "do" ->
                IF pr.env.resp.doErr THEN return(Err("transport"))
                ELSE IF pr.env.resp.status >= errorBoundary
                THEN return(HTTPError(pr.env.resp.status))
                ELSE at("create")
          [] pr.pc = "create" ->
                LET d == Create(f, savePath)
                IN  IF d.err # "ok" THEN return(Err("create"))
                    ELSE [proc |-> [pr EXCEPT !.pc = "copy"], source |-> source, fs |-> d.fs]
          [] pr.pc = "copy" ->
                IF source.protocol = fileProto /\ ~IsFile(f, source.LocalName)
                THEN return(Err("read"))
                ELSE [proc |-> [pr EXCEPT !.pc = "copyEnd"], source |-> source,
                      fs |-> Put(f, savePath, File("trunc"))]
          [] pr.pc = "copyEnd" ->
                IF fault THEN return(Err("read"))
                ELSE [proc |-> [pr EXCEPT !.pc = "verify"], source |-> source,
                      fs |-> Put(f, savePath, File(content))]
          [] pr.pc = "verify" -> return(checkB3SumFromFile(f, savePath, source.B3Sum))

\* A collector that puts the newest error first
collectPrepend(errs, err) == IF IsErr(err) THEN <<err>> \o errs ELSE errs

\* A collector that drops every error
collectNone(errs, err) == errs

\* fetchSources: an error is appended to the list, nil is not
collect(errs, err) == IF IsErr(err) THEN Append(errs, err) ELSE errs

----------------------------------------------------------------------------
(* Build orchestrator: createWorkingDir, extractArchive, setupSymlinks, Cleanup *)

build == "build"
pkg == "package"
src == "source"

TempRoot == <<"tmp">>

\* os.MkdirTemp("", pattern): a new directory of the temp root
TempName(f) == IF ~Exists(f, Join(TempRoot, "wd1")) THEN Join(TempRoot, "wd1")
               ELSE Join(TempRoot, "wd2")

\* What the environment does during createWorkingDir: tempdir fails, or the
\* creation of the failAt-th of build, package, source fails (0 = none)
WorkingDirEnvs == [tempErr : BOOLEAN, failAt : 0..3]

\* A createWorkingDir that forgets the source directory
createWorkingDirNoSource(env, f) ==
    IF env.tempErr THEN [fs |-> f, wd |-> <<>>, err |-> Err("tempdir")]
    ELSE LET wd == TempName(f)
             f0 == Put(f, wd, Dir)
             e1 == ensureDir(FALSE, env.failAt = 1, f0, Join(wd, build))
             e2 == ensureDir(FALSE, env.failAt = 2, e1.fs, Join(wd, pkg))
         IN  IF IsErr(e1.err) THEN [fs |-> e1.fs, wd |-> <<>>, err |-> e1.err]
             ELSE IF IsErr(e2.err) THEN [fs |-> e2.fs, wd |-> <<>>, err |-> e2.err]
             ELSE [fs |-> e2.fs, wd |-> wd, err |-> NoErr]

\* spec.createWorkingDir(t)
createWorkingDir(env, f) ==
    IF env.tempErr THEN [fs |-> f, wd |-> <<>>, err |-> Err("tempdir")]
    ELSE LET wd == TempName(f)
             f0 == Put(f, wd, Dir)
             e1 == ensureDir(FALSE, env.failAt = 1, f0, Join(wd, build))
             e2 == ensureDir(FALSE, env.failAt = 2, e1.fs, Join(wd, pkg))
             e3 == ensureDir(FALSE, env.failAt = 3, e2.fs, Join(wd, src))
         IN  IF IsErr(e1.err) THEN [fs |-> e1.fs, wd |-> <<>>, err |-> e1.err]
             ELSE IF IsErr(e2.err) THEN [fs |-> e2.fs, wd |-> <<>>, err |-> e2.err]
             ELSE IF IsErr(e3.err) THEN [fs |-> e3.fs, wd |-> <<>>, err |-> e3.err]
             ELSE [fs |-> e3.fs, wd |-> wd, err |-> NoErr]

\* What an archive holds: the entries it creates below the target directory
ArchiveEntries(c, dir) ==
    CASE c = "dirTar"  -> (Join(dir, "top") :> Dir) @@ (Join(Join(dir, "top"), "f") :> File("text"))
      [] c = "flatTar" -> (Join(dir, "x") :> File("text")) @@ (Join(dir, "y") :> File("text"))
      [] c = "fileTar" -> (Join(dir, "x") :> File("text"))
      [] c = "linkTar" -> (Join(dir, "top") :> Link(<<"up">>))
      [] c = "danglingTar" -> (Join(dir, "top") :> Link(<<"gone">>))
      [] OTHER         -> <<>>

\* The contents that are archives of a supported format
Archives == {"dirTar", "flatTar", "fileTar", "emptyTar", "linkTar", "danglingTar"}

\* extractArchive(filePath, dir)
extractArchive(f, filePath, dir) ==
    IF StatErr(f, filePath) # "ok" THEN [fs |-> f, err |-> Err("open")]
    ELSE IF ~IsFile(f, filePath) \/ f[filePath].data \notin Archives
    THEN [fs |-> f, err |-> Err("Not a supported archive")]
    ELSE [fs |-> ArchiveEntries(f[filePath].data, dir) @@ f, err |-> NoErr]

\* os.ReadDir(dir): the paths of the entries of dir
ReadDir(f, dir) == {p \in DOMAIN f : Len(p) = Len(dir) + 1 /\ IsPrefix(dir, p)}

\* The *FileInfo of os.Stat(p), which follows links, at most hops of them:
\* the entry the path leads to; Nil for a path that leads nowhere
RECURSIVE Stat(_, _, _)
Stat(f, p, hops) ==
    IF StatErr(f, p) # "ok" THEN Nil
    ELSE IF f[p].kind # "link" THEN f[p]
    ELSE IF hops = 0 THEN Nil
    ELSE Stat(f, f[p].target, hops - 1)

\* setupBuildSteps, the choice of the build context after the extraction:
\* the error of os.Stat is dropped and info.IsDir() is called on what it
\* returned; on a nil info the call panics
contextAfterExtract(f, context) ==
    LET files == ReadDir(f, context)
        checkPath == CHOOSE p \in files : TRUE
        info == Stat(f, checkPath, Cardinality(DOMAIN f))
    IN  IF Cardinality(files) # 1 THEN [context |-> context, panic |-> FALSE]
        ELSE IF info = Nil THEN [context |-> context, panic |-> TRUE]
        ELSE IF info.kind = "dir" THEN [context |-> checkPath, panic |-> FALSE]
        ELSE [context |-> context, panic |-> FALSE]

\* spec.setupSymlinks(l), from the i-th source on
RECURSIVE symlinksFrom(_, _, _, _)
symlinksFrom(i, f, sources, wd) ==
    IF i > Len(sources) THEN [fs |-> f, err |-> NoErr, linked |-> i - 1]
    ELSE LET r == Symlink(f, sources[i].savePath,
                          Join(Join(wd, src), Base(sources[i].savePath)))
         IN  IF r.err # "ok" THEN [fs |-> f, err |-> Err("symlink"), linked |-> i - 1]
             ELSE symlinksFrom(i + 1, r.fs, sources, wd)

\* A setupSymlinks that links the primary archive only
setupSymlinksPrimaryOnly(f, sources, wd) ==
    symlinksFrom(1, f, SubSeq(sources, 1, IF Len(sources) > 0 THEN 1 ELSE 0), wd)

setupSymlinks(f, sources, wd) == symlinksFrom(1, f, sources, wd)

\* A test of the error list that lets a single error pass
fetchFailedOffByOne(errs) == Len(errs) > 1

\* setupBuildSteps: len(errors) != 0
fetchFailed(errs) == Len(errs) # 0

BuildError(errs) ==
    [kind |-> "build error", code |-> 0, expected |-> <<>>, actual |-> <<>>, wrapped |-> errs]

\* A stage runner that ignores the exit status
stageErrIgnored(status) == NoErr

\* executeStage: cmd.Run() returns an error for a non-zero exit status
stageErr(status) ==
    IF status # 0 THEN [Err("exit status") EXCEPT !.code = status] ELSE NoErr

merePkgdir == "MERE_PKGDIR"
mereSrcdir == "MERE_SRCDIR"

\* The environments the parent process can have (os.Environ()): pairs of a
\* name and a value
ParentEnvs ==
    { <<>>,
      << <<"PATH", <<"bin">>>>, <<"HOME", <<"home">>>> >>,
      << <<merePkgdir, <<"elsewhere">>>>, <<"SECRET", <<"s">>>> >> }

\* An executeStage that adds the two variables to the environment of the parent
stageCmdInherit(parent, stage, wd, context) ==
    [Args |-> <<"sh", "-c", "set -e">> \o stage,
     Dir |-> context,
     envSet |-> TRUE,
     Env |-> parent \o << <<merePkgdir, Join(wd, pkg)>>, <<mereSrcdir, Join(wd, src)>> >>]

\* executeStage: the command as cmd.Run() finds it; parent is the
\* environment of the running process, which the code does not read
stageCmd(parent, stage, wd, context) ==
    [Args |-> <<"sh", "-c", "set -e">> \o stage,
     Dir |-> context,
     envSet |-> TRUE,
     Env |-> << <<merePkgdir, Join(wd, pkg)>>, <<mereSrcdir, Join(wd, src)>> >>]

\* cmd.Run(): the new process runs in cmd.Dir with the environment cmd.Env,
\* and with the environment of the parent when cmd.Env was not set
processEnv(parent, cmd) == IF cmd.envSet THEN cmd.Env ELSE parent

\* A build order with test before build
BuildOrderSwapped(Build, Test, Install) ==
    << [name |-> "test", cmd |-> Test],
       [name |-> "build", cmd |-> Build],
       [name |-> "install", cmd |-> Install] >>

\* NewSpec, the build order
BuildOrder(Build, Test, Install) ==
    << [name |-> "build", cmd |-> Build],
       [name |-> "test", cmd |-> Test],
       [name |-> "install", cmd |-> Install] >>

\* spec.Cleanup(): os.RemoveAll(s.workingDir)
CleanupFS(f, wd) == RemoveAll(f, wd)

----------------------------------------------------------------------------
(* Recipe model: validateSchema, render, renderAll *)

\* A text is a sequence of pieces.  In a template, a piece is literal text, an
\* action {{.Field}}, or text the template parser rejects.
Unparseable == "{{}"

\* The field an action names ("" for a literal piece)
FieldOf(piece) ==
    CASE piece = "{{.Name}}"      -> "Name"
      [] piece = "{{.Version}}"   -> "Version"
      [] piece = "{{.Home}}"      -> "Home"
      [] piece = "{{.Build}}"     -> "Build"
      [] piece = "{{.Test}}"      -> "Test"
      [] piece = "{{.Install}}"   -> "Install"
      [] piece = "{{.Versio}}"    -> "Versio"
      [] piece = "{{.FakeField}}" -> "FakeField"
      [] OTHER                    -> ""

IsAction(piece) == FieldOf(piece) # ""

\* The exported fields of Spec whose value is text
TextFields == {"Name", "Description", "Home", "Version", "BuildDeps", "Build", "Test", "Install"}

\* template.Parse fails
ParseError == [kind |-> "template", code |-> 0, expected |-> <<>>, actual |-> <<>>, field |-> ""]

\* template.Execute: can't evaluate field <field> in type *mere.Spec
ExecError(field) ==
    [kind |-> "template", code |-> 0, expected |-> <<>>, actual |-> <<>>, field |-> field]

\* tl.Execute(buf, s), from the n-th piece on: the text written to buf
RECURSIVE Execute(_, _, _)
Execute(s, v, n) ==
    IF n > Len(v) THEN <<>>
    ELSE (IF IsAction(v[n]) THEN s[FieldOf(v[n])] ELSE <<v[n]>>) \o Execute(s, v, n + 1)

\* spec.render(v): the rendered text, or "" and the error
render(s, v) ==
    IF \E n \in 1..Len(v) : v[n] = Unparseable
    THEN [text |-> <<>>, err |-> ParseError]
    ELSE IF \E n \in 1..Len(v) : IsAction(v[n]) /\ FieldOf(v[n]) \notin TextFields
    THEN [text |-> <<>>,
          err |-> ExecError(FieldOf(v[CHOOSE n \in 1..Len(v) :
                                /\ IsAction(v[n]) /\ FieldOf(v[n]) \notin TextFields
                                /\ \A m \in 1..(n - 1) :
                                      ~(IsAction(v[m]) /\ FieldOf(v[m]) \notin TextFields)]))]
    ELSE [text |-> Execute(s, v, 1), err |-> NoErr]

RECURSIVE Concat(_)
Concat(seqs) == IF seqs = <<>> THEN <<>> ELSE Head(seqs) \o Concat(Tail(seqs))

\* errRender with the messages of the failed renders
RenderError(errmsgs) ==
    [kind |-> "rendering error", code |-> 0, expected |-> <<>>, actual |-> <<>>,
     errmsgs |-> errmsgs]

\* A renderAll that drops the errors of the renders
renderAllIgnoreErrors(s, sources) ==
    LET t == [x \in {"Build", "Test", "Install"} |-> render(s, s[x]).text]
    IN  [recipe |-> [s EXCEPT !.Build = t["Build"], !.Test = t["Test"], !.Install = t["Install"],
                              !.Packages = [i \in 1..Len(s.Packages) |->
                                  [s.Packages[i] EXCEPT !.Files =
                                      [j \in 1..Len(s.Packages[i].Files) |->
                                          render(s, s.Packages[i].Files[j]).text]]]],
         sources |-> [i \in 1..Len(sources) |->
                         [sources[i] EXCEPT !.URL = render(s, sources[i].URL).text]],
         err |-> NoErr]

\* A renderAll that renders every field against the Spec as it was read
renderAllAgainstRead(s, sources) ==
    LET urls == [i \in 1..Len(sources) |-> render(s, sources[i].URL)]
        files == [i \in 1..Len(s.Packages) |->
                     [j \in 1..Len(s.Packages[i].Files) |-> render(s, s.Packages[i].Files[j])]]
        all == urls \o Concat(files) \o <<render(s, s.Build), render(s, s.Test), render(s, s.Install)>>
        failed == SelectSeq(all, LAMBDA r : IsErr(r.err))
    IN  [recipe |-> [s EXCEPT !.Build = render(s, s.Build).text, !.Test = render(s, s.Test).text,
                              !.Install = render(s, s.Install).text,
                              !.Packages = [i \in 1..Len(s.Packages) |->
                                  [s.Packages[i] EXCEPT !.Files =
                                      [j \in 1..Len(s.Packages[i].Files) |-> files[i][j].text]]]],
         sources |-> [k \in 1..Len(sources) |-> [sources[k] EXCEPT !.URL = urls[k].text]],
         err |-> IF Len(failed) > 0
                 THEN RenderError([k \in 1..Len(failed) |-> failed[k].err]) ELSE NoErr]

\* spec.renderAll(): sources[].url, packages[].files[], build, test, install
\* are rendered in this order, each against the Spec as it is then; a failed
\* render leaves "" in the field and its message in the list
renderAll(s, sources) ==
    LET urls == [i \in 1..Len(sources) |-> render(s, sources[i].URL)]
        files == [i \in 1..Len(s.Packages) |->
                     [j \in 1..Len(s.Packages[i].Files) |-> render(s, s.Packages[i].Files[j])]]
        s1 == [s EXCEPT !.Packages = [i \in 1..Len(s.Packages) |->
                          [s.Packages[i] EXCEPT !.Files =
                              [j \in 1..Len(s.Packages[i].Files) |-> files[i][j].text]]]]
        b == render(s1, s1.Build)
        s2 == [s1 EXCEPT !.Build = b.text]
        t == render(s2, s2.Test)
        s3 == [s2 EXCEPT !.Test = t.text]
        i == render(s3, s3.Install)
        s4 == [s3 EXCEPT !.Install = i.text]
        all == urls \o Concat(files) \o <<b, t, i>>
        failed == SelectSeq(all, LAMBDA r : IsErr(r.err))
        errmsgs == [k \in 1..Len(failed) |-> failed[k].err]
    IN  [recipe |-> s4,
         sources |-> [k \in 1..Len(sources) |-> [sources[k] EXCEPT !.URL = urls[k].text]],
         err |-> IF Len(errmsgs) > 0 THEN RenderError(errmsgs) ELSE NoErr]

\* The length the schema asks of sources[].b3sum (minLength = maxLength = 64):
\* the hex digits of a digest of DigestSize bytes
b3sumLength == 2 * DigestSize

\* The violations gojsonschema reports for a document
Violations(doc) ==
    (IF doc.hasVersion THEN <<>> ELSE << <<"version", "is required">> >>)
    \o (IF doc.release.type = "integer" THEN <<>>
        ELSE << <<"release", "type should be integer">> >>)
    \o Concat([i \in 1..Len(doc.sources) |->
                  IF Len(doc.sources[i].b3sum) < b3sumLength
                  THEN << <<"b3sum", "min length">> >>
                  ELSE IF Len(doc.sources[i].b3sum) > b3sumLength
                  THEN << <<"b3sum", "max length">> >>
                  ELSE <<>>])

\* errValidate with the violations
SchemaError(violations) ==
    [kind |-> "invalid spec file", code |-> 0, expected |-> <<>>, actual |-> <<>>,
     violations |-> violations]

\* json.Unmarshal(jsondata, s): the fields of the document in the Spec
Unmarshal(doc) ==
    [recipe |-> [Name |-> doc.name, Description |-> doc.description, Home |-> doc.home,
                 Version |-> doc.version, Release |-> doc.release.val,
                 BuildDeps |-> doc.buildDeps, Build |-> doc.build, Test |-> doc.test,
                 Install |-> doc.install,
                 Packages |-> [i \in 1..Len(doc.packages) |->
                                 [Name |-> doc.packages[i].name, Files |-> doc.packages[i].files]]],
     sources |-> [i \in 1..Len(doc.sources) |->
                     [URL |-> doc.sources[i].url, B3Sum |-> doc.sources[i].b3sum,
                      LocalName |-> doc.sources[i].localName, protocol |-> "", savePath |-> <<>>]]]

\* What validateSchema returns when it returns an error: the Spec is as it was
SchemaFailed(s, sources, err) == [recipe |-> s, sources |-> sources, err |-> err]

\* A validateSchema that does not look at the result of the validation
validateSchemaNoValidation(s, sources, doc, unmarshalFault) ==
    IF doc.read # "ok" THEN SchemaFailed(s, sources, Err(doc.read))
    ELSE IF unmarshalFault THEN SchemaFailed(s, sources, Err("unmarshal"))
    ELSE [recipe |-> Unmarshal(doc).recipe, sources |-> Unmarshal(doc).sources, err |-> NoErr]

\* A validateSchema whose schema has no maxLength for b3sum
validateSchemaNoMaxLength(s, sources, doc, unmarshalFault) ==
    LET v == SelectSeq(Violations(doc), LAMBDA x : x # <<"b3sum", "max length">>)
    IN  IF doc.read # "ok" THEN SchemaFailed(s, sources, Err(doc.read))
        ELSE IF v # <<>> THEN SchemaFailed(s, sources, SchemaError(v))
        ELSE IF unmarshalFault THEN SchemaFailed(s, sources, Err("unmarshal"))
        ELSE [recipe |-> Unmarshal(doc).recipe, sources |-> Unmarshal(doc).sources, err |-> NoErr]

\* spec.validateSchema(path, json), doc being what is at path: the file is
\* read, converted, validated against the schema, then deserialized
validateSchema(s, sources, doc, unmarshalFault) ==
    IF doc.read # "ok" THEN SchemaFailed(s, sources, Err(doc.read))
    ELSE IF Violations(doc) # <<>> THEN SchemaFailed(s, sources, SchemaError(Violations(doc)))
    ELSE IF unmarshalFault THEN SchemaFailed(s, sources, Err("unmarshal"))
    ELSE [recipe |-> Unmarshal(doc).recipe, sources |-> Unmarshal(doc).sources, err |-> NoErr]

----------------------------------------------------------------------------
(* The initial states: a Spec as NewSpec returns it, and a file system *)

\* user.Current().HomeDir
Home == <<"home">>

configDir == ".mere"
srcDir == "src"

\* NewSpec: user.HomeDir + configDir + srcDir
Cache == Join(Join(Home, configDir), srcDir)

Upstream == <<"up">>

\* The machine before the build: the temp root, a directory with the local
\* upstream files, and one of the states the source cache can be in
BaseFS == (TempRoot :> Dir) @@ (Upstream :> Dir)
          @@ (Join(Upstream, "a") :> File("dirTar")) @@ (Join(Upstream, "b") :> File("flatTar"))

EmptyCache == (Home :> Dir) @@ (Parent(Cache) :> Dir) @@ (Cache :> Dir)

CacheStates ==
    { <<>>,                                                       \* no home directory
      (Home :> Dir),                                              \* no cache directory
      EmptyCache,
      EmptyCache @@ (Join(Cache, "a") :> File("dirTar")),
      EmptyCache @@ (Join(Cache, "a") :> File("text")),
      (Home :> Dir) @@ (Parent(Cache) :> Dir) @@ (Cache :> File("text")),  \* the cache path is a file
      (Home :> File("text")) }                                    \* stat fails: not a directory

InitFS == {c @@ BaseFS : c \in CacheStates}

Upper(ch) == CASE ch = "a" -> "A" [] ch = "b" -> "B" [] ch = "c" -> "C"
               [] ch = "d" -> "D" [] ch = "e" -> "E" [] ch = "f" -> "F" [] OTHER -> ch

ToUpper(str) == [i \in 1..Len(str) |-> Upper(str[i])]

\* The sources NewSpec accepts: validateSource passed
Validated(raws) == {validateSource(r).source : r \in {x \in raws : ~IsErr(validateSource(x).err)}}

\* Sources of the recipes of the build
BuildSources ==
    Validated({ RawSource("file", Join(Upstream, "a"), computeB3Sum("dirTar"), <<>>),
                RawSource("file", Join(Upstream, "b"), computeB3Sum("flatTar"), <<>>),
                RawSource("https", Join(Upstream, "a"), computeB3Sum("dirTar"), <<>>),
                RawSource("https", Join(Upstream, "b"), computeB3Sum("dirTar"), <<>>) })

\* Sources of single fetchSource calls: also a local name, an upper-case
\* b3sum, a local file that does not exist
FetchSources ==
    Validated({RawSource(scheme, Join(Upstream, n), b3, ln) :
                 scheme \in {"", "file", "http", "https"}, n \in {"a", "c"},
                 b3 \in {computeB3Sum("dirTar"), ToUpper(computeB3Sum("dirTar")), computeB3Sum("text")},
                 ln \in {<<>>, <<"a">>, <<"up", "b">>}})

\* The stage scripts: the empty script and a script
Scripts == {<<>>, <<"sh">>}

NotReturned == Err("not returned")

SeqsUpTo(S, n) == UNION {[1..k -> S] : k \in 0..n}

InitCommon ==
    /\ fs \in InitFS
    /\ sourceCache = Cache
    /\ workingDir = <<>>
    /\ buildContext = <<>>
    /\ idx = 1
    /\ errors = <<>>
    /\ result = NotReturned
    /\ log = <<>>
    /\ procs = <<>>

\* new(Spec): every field has its zero value
ZeroSpec ==
    [Name |-> <<>>, Description |-> <<>>, Home |-> <<>>, Version |-> <<>>, Release |-> 0,
     BuildDeps |-> <<>>, Build |-> <<>>, Test |-> <<>>, Install |-> <<>>, Packages |-> <<>>]

\* The serialized fields of a Spec with the scripts b, t, i
Fields(b, t, i) ==
    [Name |-> <<"a">>, Description |-> <<"d">>, Home |-> <<"h">>, Version |-> <<"1.0">>,
     Release |-> 1, BuildDeps |-> <<>>, Build |-> b, Test |-> t, Install |-> i,
     Packages |-> << [Name |-> <<"a">>, Files |-> << <<"usr", "a">> >>] >>]

\* A Spec that NewSpec returned, before BuildSteps
Init ==
    /\ InitCommon
    /\ Sources \in SeqsUpTo(BuildSources, MaxSources)
    /\ \E b \in Scripts, t \in Scripts, i \in Scripts :
          /\ buildOrder = BuildOrder(b, t, i)
          /\ recipe = Fields(b, t, i)
    /\ pc = "new"

\* A Spec with one source, for successive fetchSource calls
InitFetch ==
    /\ InitCommon
    /\ Sources \in [1..1 -> FetchSources]
    /\ buildOrder = BuildOrder(<<>>, <<>>, <<>>)
    /\ recipe = Fields(<<>>, <<>>, <<>>)
    /\ pc = "fetch"

\* The sources of single validateSource calls: a path or a local name that
\* is empty, "/", or ends in "." or ".."
NamedSources ==
    {RawSource(scheme, path, computeB3Sum("dirTar"), ln) :
        scheme \in {"file", "https"},
        path \in {<<"up", "a">>, <<>>, <<"/">>, <<"up", "..">>, <<"up", ".">>},
        ln \in {<<>>, <<"a">>, <<"..">>, <<"dl", ".">>, <<"/">>}}

\* A Spec with one deserialized source: validateSource, then fetchSource
InitSource ==
    /\ InitCommon
    /\ Sources \in [1..1 -> NamedSources]
    /\ buildOrder = BuildOrder(<<>>, <<>>, <<>>)
    /\ recipe = Fields(<<>>, <<>>, <<>>)
    /\ pc = "validate"

\* The file systems of single calls of the helpers: the directory out is
\* missing, is empty, holds the file f, holds a directory f, or is a file
HelperFS ==
    { BaseFS,
      (<<"out">> :> Dir) @@ BaseFS,
      (<<"out">> :> Dir) @@ (<<"out", "f">> :> File("text")) @@ BaseFS,
      (<<"out">> :> Dir) @@ (<<"out", "f">> :> Dir) @@ BaseFS,
      (<<"out">> :> File("text")) @@ BaseFS }

\* The paths ensureDir is called with
HelperDirs == {<<"out">>, <<"out", "sub">>, <<"out", "f">>, <<"out", "sub", "d">>}

\* The destinations of the transports, as the caller writes them
HelperDests == {<<"out", "f">>, <<"out", ".", "f">>, <<"out", "sub", "..", "f">>, <<"out", "sub", "g">>}

\* The url.URL values Mere.fetch is called with
HelperURLs == [Scheme : {"file", "http", "https", "junk", ""}, Path : {<<"up", "a">>, <<"up", "c">>}]

\* A caller about to call one of ensureDir, fetchHTTP, Mere.fetch
InitHelper ==
    /\ fs \in HelperFS
    /\ Sources = <<>>
    /\ recipe = ZeroSpec
    /\ sourceCache = <<>>
    /\ workingDir = <<>>
    /\ buildContext = <<>>
    /\ buildOrder = <<>>
    /\ idx = 1
    /\ errors = <<>>
    /\ result = NotReturned
    /\ log = <<>>
    /\ procs = <<>>
    /\ pc = "call"

\* A Spec whose primary archive has one of the layouts: a single top-level
\* directory, several entries, a single file, no entry, a single link to a
\* directory, a single link to nothing
InitContext ==
    /\ \E c \in Archives :
          /\ fs = Put(EmptyCache @@ BaseFS, Join(Upstream, "a"), File(c))
          /\ Sources \in SeqsUpTo(Validated({
                  RawSource("file", Join(Upstream, "a"), computeB3Sum(c), <<>>),
                  RawSource("file", Join(Upstream, "b"), computeB3Sum("flatTar"), <<>>) }),
                  MaxSources)
    /\ sourceCache = Cache
    /\ recipe = Fields(<<"sh">>, <<>>, <<>>)
    /\ buildOrder = BuildOrder(<<"sh">>, <<>>, <<>>)
    /\ workingDir = <<>>
    /\ buildContext = <<>>
    /\ idx = 1
    /\ errors = <<>>
    /\ result = NotReturned
    /\ log = <<>>
    /\ procs = <<>>
    /\ pc = "new"

\* The texts of the fields renderAll renders: plain text, a reference to a
\* field that is not rendered, to one that is, a template that does not
\* parse, one that names no field of the Spec
RenderTexts ==
    { <<"sh">>, <<"{{.Name}}", "x">>, <<"{{.Build}}">>, <<"{{.Test}}", "t">>, <<"{{.Install}}">>,
      <<Unparseable>>, <<"{{.FakeField}}">> }

\* A Spec as validateSchema left it, before renderAll
InitRender ==
    /\ \E b \in RenderTexts, t \in RenderTexts, i \in RenderTexts,
          u \in {<<"https", ":", "up", "{{.Name}}">>, <<"https", ":", "up", "{{.Build}}">>,
                 <<"https", ":", "up", "{{.Versio}}">>},
          file \in {<<"usr", "{{.Name}}">>, <<"{{.Install}}">>, <<Unparseable>>} :
          /\ recipe = [Fields(b, t, i) EXCEPT !.Packages[1].Files = <<file, <<"usr", "a">> >>]
          /\ Sources \in SeqsUpTo({ [URL |-> u, B3Sum |-> computeB3Sum("dirTar"),
                                      LocalName |-> <<"a">>, protocol |-> "", savePath |-> <<>>] },
                                   MaxSources)
          /\ buildOrder = <<>>
    /\ fs = BaseFS
    /\ sourceCache = <<>>
    /\ workingDir = <<>>
    /\ buildContext = <<>>
    /\ idx = 1
    /\ errors = <<>>
    /\ result = NotReturned
    /\ log = <<>>
    /\ procs = <<>>
    /\ pc = "render"

\* The invocations that run beside each other
Procs == {1, 2}

\* What the environment does to one of the invocations: the copy and the
\* download complete, both break off, the server answers 500
ConcurrentEnvs ==
    { [mkFault |-> FALSE, copyFault |-> FALSE,
       resp |-> [doErr |-> FALSE, status |-> 200, body |-> "dirTar", readErr |-> FALSE]],
      [mkFault |-> FALSE, copyFault |-> TRUE,
       resp |-> [doErr |-> FALSE, status |-> 200, body |-> "dirTar", readErr |-> TRUE]],
      [mkFault |-> FALSE, copyFault |-> FALSE,
       resp |-> [doErr |-> FALSE, status |-> 500, body |-> "", readErr |-> FALSE]] }

\* Two invocations of fetchSource that share the source cache; the first
\* source is cached as a, the second as b
InitConcurrent ==
    /\ fs \in InitFS
    /\ Sources \in {l \in [1..2 -> BuildSources] :
                       Base(l[1].LocalName) = "a" /\ Base(l[2].LocalName) = "b"}
    /\ procs \in [init : {fs}, proc : [Procs -> {Started(env) : env \in ConcurrentEnvs}]]
    /\ sourceCache = Cache
    /\ recipe = Fields(<<>>, <<>>, <<>>)
    /\ buildOrder = BuildOrder(<<>>, <<>>, <<>>)
    /\ workingDir = <<>>
    /\ buildContext = <<>>
    /\ idx = 1
    /\ errors = <<>>
    /\ result = NotReturned
    /\ log = <<>>
    /\ pc = "concurrent"

\* A source of a recipe document
DocSource(url, b3sum, localName) == [url |-> url, b3sum |-> b3sum, localName |-> localName]

\* Sources that NewSpec accepts and whose file can be fetched and verified
GoodDocSources ==
    { DocSource(<<"file", ":", "up", "a">>, computeB3Sum("dirTar"), <<>>),
      DocSource(<<"https", ":", "up", "{{.Name}}">>, computeB3Sum("dirTar"), <<>>),
      DocSource(<<"up", "b">>, computeB3Sum("flatTar"), <<>>) }

\* Sources with one peculiarity: a scheme that is not supported, no scheme
\* before the colon, no path, a template with an unknown field, a b3sum that
\* is too short, too long, not hexadecimal, in upper case, a local name
OtherDocSources ==
    { DocSource(<<"gxp", ":", "blergh", "blargh">>, computeB3Sum("dirTar"), <<>>),
      DocSource(<<":", "blergh">>, computeB3Sum("dirTar"), <<>>),
      DocSource(<<"https", ":">>, computeB3Sum("dirTar"), <<>>),
      DocSource(<<"http", ":", "up", "{{.Versio}}">>, computeB3Sum("dirTar"), <<>>),
      DocSource(<<"file", ":", "up", "a">>, Tail(computeB3Sum("dirTar")), <<>>),
      DocSource(<<"file", ":", "up", "a">>, computeB3Sum("dirTar") \o <<"0">>, <<>>),
      DocSource(<<"file", ":", "up", "a">>, [n \in 1..b3sumLength |-> "z"], <<>>),
      DocSource(<<"file", ":", "up", "a">>, ToUpper(computeB3Sum("dirTar")), <<>>),
      DocSource(<<"https", ":", "up", "c">>, computeB3Sum("text"), <<"dl", "a">>) }

\* The source lists of the documents: at most one source with a peculiarity
DocSourceLists ==
    {l \in SeqsUpTo(GoodDocSources \cup OtherDocSources, MaxSources) :
        Cardinality({n \in 1..Len(l) : l[n] \in OtherDocSources}) <= 1}

\* The rest of a document: is version there, the type of release, the
\* templates of build, test, install and of the files entry of the package
DocHeads ==
    { <<TRUE, "integer", <<"sh">>, <<"sh", "{{.Version}}">>, <<"sh">>, <<"usr", "{{.Name}}">>>>,
      <<TRUE, "integer", <<>>, <<>>, <<>>, <<"usr", "a">>>>,
      <<TRUE, "integer", <<"make", "{{.Versio}}">>, <<>>, <<"sh">>, <<"usr", "a">>>>,
      <<TRUE, "integer", <<"sh">>, <<"{{.Versio}}">>, <<>>, <<"usr", "a">>>>,
      <<TRUE, "integer", <<"sh">>, <<>>, <<"{{.FakeField}}">>, <<"usr", "a">>>>,
      <<TRUE, "integer", <<"{{}">>, <<>>, <<>>, <<"usr", "a">>>>,
      <<TRUE, "integer", <<"sh">>, <<>>, <<>>, <<"usr", "{{.FakeField}}">>>>,
      <<TRUE, "integer", <<"{{.Versio}}">>, <<>>, <<"{{}">>, <<"usr", "a">>>>,
      <<TRUE, "string", <<"sh">>, <<>>, <<>>, <<"usr", "a">>>>,
      <<FALSE, "integer", <<"sh">>, <<>>, <<>>, <<"usr", "a">>>>,
      <<TRUE, "string", <<"{{.Versio}}">>, <<>>, <<>>, <<"usr", "a">>>>,
      <<FALSE, "integer", <<>>, <<>>, <<>>, <<"usr", "{{}">>>> }

\* A recipe document: what is in the file NewSpec is given
Doc(read, head, sources) ==
    [read |-> read, name |-> <<"a">>, description |-> <<"d">>, home |-> <<"h">>,
     hasVersion |-> head[1], version |-> IF head[1] THEN <<"1.0">> ELSE <<>>,
     release |-> [type |-> head[2], val |-> 1],
     sources |-> sources, buildDeps |-> <<>>,
     build |-> head[3], test |-> head[4], install |-> head[5],
     packages |-> << [name |-> <<"a">>, files |-> << head[6] >>] >>]

\* The documents: the files that can be read, a file that is not there, a
\* file that is not YAML
Documents ==
    {Doc("ok", h, l) : h \in DocHeads, l \in DocSourceLists}
    \cup {Doc(r, <<TRUE, "integer", <<>>, <<>>, <<>>, <<"usr", "a">>>>, <<>>) :
            r \in {"no such file", "invalid yaml"}}

\* NewSpec is called: spec := new(Spec)
InitNew ==
    /\ fs \in {BaseFS, EmptyCache @@ (Join(Cache, "a") :> File("dirTar")) @@ BaseFS}
    /\ Sources = <<>>
    /\ recipe = ZeroSpec
    /\ sourceCache = <<>>
    /\ workingDir = <<>>
    /\ buildContext = <<>>
    /\ buildOrder = <<>>
    /\ idx = 1
    /\ errors = <<>>
    /\ result = NotReturned
    /\ log = <<>>
    /\ procs = <<>>
    /\ pc = "NewSpec"

----------------------------------------------------------------------------
(* Actions *)

Absent == [kind |-> "absent", data |-> "", target |-> <<>>]

EntryAt(f, p) == IF Exists(f, p) THEN f[p] ELSE Absent

\* The history entry of a fetchSource call: savePath as the call computes it,
\* what was there before and after, the transport invoked, the requests made
FetchEntry(i, source, f, r) ==
    LET sp == Join(sourceCache, Base(source.LocalName))
    IN  [op |-> "fetchSource", i |-> i, savePath |-> sp,
         pre |-> EntryAt(f, sp), post |-> EntryAt(r.fs, sp),
         transport |-> r.transport, net |-> r.net, err |-> r.err]

\* One call source.fetchSource(spec) on the only source (SpecFetch)
FetchSourceCall ==
    /\ pc = "fetch"
    /\ Len(log) < MaxCalls
    /\ \E env \in FetchEnvs :
         LET r == fetchSource(env, sourceCache, Sources[1], fs)
         IN  /\ fs' = r.fs
             /\ Sources' = [Sources EXCEPT ![1] = r.source]
             /\ log' = Append(log, FetchEntry(1, Sources[1], fs, r))
    /\ UNCHANGED <<procs, recipe, sourceCache, workingDir, buildContext, buildOrder, pc, idx, errors, result>>

\* One call source.validateSource() on the only source (SpecSource)
ValidateSourceCall ==
    /\ pc = "validate"
    /\ LET r == validateSource(Sources[1])
       IN  /\ Sources' = [Sources EXCEPT ![1] = r.source]
           /\ log' = Append(log, [op |-> "validateSource", i |-> 1, raw |-> Sources[1],
                                  err |-> r.err])
           /\ pc' = IF IsErr(r.err) THEN "rejected" ELSE "fetch"
    /\ UNCHANGED <<procs, recipe, fs, sourceCache, workingDir, buildContext, buildOrder, idx, errors, result>>

\* One call ensureDir(md, path) (SpecHelper)
EnsureDirCall ==
    /\ pc = "call"
    /\ \E all \in BOOLEAN, fault \in BOOLEAN, path \in HelperDirs :
         LET r == ensureDir(all, fault, fs, path)
         IN  /\ fs' = r.fs
             /\ result' = r.err
             /\ log' = Append(log, [op |-> "ensureDir", all |-> all, fault |-> fault,
                                    path |-> path, before |-> fs, calls |-> r.calls,
                                    err |-> r.err])
    /\ pc' = "called"
    /\ UNCHANGED <<procs, recipe, Sources, sourceCache, workingDir, buildContext, buildOrder, idx, errors>>

\* One call fetchHTTP(d, src, dest) (SpecHelper)
FetchHTTPCall ==
    /\ pc = "call"
    /\ \E resp \in Responses, dest \in HelperDests :
         LET r == fetchHTTP(resp, fs, Abs(dest))
         IN  /\ fs' = r.fs
             /\ result' = r.err
             /\ log' = Append(log, [op |-> "fetchHTTP", resp |-> resp, dest |-> Abs(dest),
                                    before |-> fs, err |-> r.err])
    /\ pc' = "called"
    /\ UNCHANGED <<procs, recipe, Sources, sourceCache, workingDir, buildContext, buildOrder, idx, errors>>

\* One call m.fetch(u, destFile) (SpecHelper)
MereFetchCall ==
    /\ pc = "call"
    /\ \E env \in FetchEnvs, u \in HelperURLs, destFile \in HelperDests :
         LET r == fetch(env, u, destFile, fs)
         IN  /\ fs' = r.fs
             /\ result' = r.err
             /\ log' = Append(log, [op |-> "fetch", u |-> u, destFile |-> destFile,
                                    before |-> fs, ensured |-> r.ensured, call |-> r.call,
                                    err |-> r.err])
    /\ pc' = "called"
    /\ UNCHANGED <<procs, recipe, Sources, sourceCache, workingDir, buildContext, buildOrder, idx, errors>>

\* The p-th of the concurrent invocations of fetchSource makes its next
\* system call (SpecConcurrent)
FetchSourceStep(p) ==
    /\ pc = "concurrent"
    /\ procs.proc[p].pc # "done"
    /\ LET r == fetchSourceStep(procs.proc[p], Sources[p], sourceCache, fs)
       IN  /\ fs' = r.fs
           /\ Sources' = [Sources EXCEPT ![p] = r.source]
           /\ procs' = [procs EXCEPT !.proc[p] = r.proc]
    /\ UNCHANGED <<recipe, sourceCache, workingDir, buildContext, buildOrder, pc, idx, errors,
                   result, log>>

\* One call of spec.renderAll() (SpecRender); the history keeps the Spec as
\* it was before the call
RenderAllCall ==
    /\ pc = "render"
    /\ LET r == renderAll(recipe, Sources)
       IN  /\ recipe' = r.recipe
           /\ Sources' = r.sources
           /\ result' = r.err
           /\ log' = Append(log, [op |-> "renderAll", recipe |-> recipe, sources |-> Sources,
                                  err |-> r.err])
    /\ pc' = "rendered"
    /\ UNCHANGED <<procs, fs, sourceCache, workingDir, buildContext, buildOrder, idx, errors>>

\* buildSteps -> setupBuildSteps -> fetchSources is entered
BuildSteps ==
    /\ pc = "new"
    /\ pc' = "fetchSources"
    /\ idx' = 1
    /\ errors' = <<>>
    /\ UNCHANGED <<procs, recipe, fs, Sources, sourceCache, workingDir, buildContext, buildOrder, result, log>>

\* fetchSources: one iteration of the loop over s.Sources
FetchSources_Iter ==
    /\ pc = "fetchSources"
    /\ idx <= Len(Sources)
    /\ \E env \in FetchEnvs :
         LET r == fetchSource(env, sourceCache, Sources[idx], fs)
         IN  /\ fs' = r.fs
             /\ Sources' = [Sources EXCEPT ![idx] = r.source]
             /\ errors' = collect(errors, r.err)
             /\ log' = Append(log, FetchEntry(idx, Sources[idx], fs, r))
    /\ idx' = idx + 1
    /\ UNCHANGED <<procs, recipe, sourceCache, workingDir, buildContext, buildOrder, pc, result>>

\* setupBuildSteps: fetchSources returned errors
FetchSourcesFailed ==
    /\ pc = "fetchSources"
    /\ idx > Len(Sources)
    /\ fetchFailed(errors)
    /\ result' = BuildError(errors)
    /\ pc' = "returned"
    /\ UNCHANGED <<procs, recipe, fs, Sources, sourceCache, workingDir, buildContext, buildOrder, idx, errors, log>>

\* setupBuildSteps: createWorkingDir, then workingDir and buildContext are set
CreateWorkingDir ==
    /\ pc = "fetchSources"
    /\ idx > Len(Sources)
    /\ ~fetchFailed(errors)
    /\ \E env \in WorkingDirEnvs :
         LET r == createWorkingDir(env, fs)
         IN  /\ fs' = r.fs
             /\ log' = Append(log, [op |-> "createWorkingDir", err |-> r.err])
             /\ IF IsErr(r.err)
                THEN /\ result' = r.err
                     /\ pc' = "returned"
                     /\ UNCHANGED <<workingDir, buildContext>>
                ELSE /\ workingDir' = r.wd
                     /\ buildContext' = Join(r.wd, build)
                     /\ pc' = "extract"
                     /\ UNCHANGED result
    /\ UNCHANGED <<procs, recipe, Sources, sourceCache, buildOrder, idx, errors>>

\* setupBuildSteps: the primary archive is extracted and the context chosen
ExtractArchive ==
    /\ pc = "extract"
    /\ IF Len(Sources) > 0
       THEN LET r == extractArchive(fs, Sources[1].savePath, buildContext)
            IN  /\ fs' = r.fs
                /\ log' = Append(log, [op |-> "extractArchive", file |-> Sources[1].savePath,
                                       err |-> r.err])
                /\ IF IsErr(r.err)
                   THEN /\ result' = r.err
                        /\ pc' = "returned"
                        /\ UNCHANGED buildContext
                   ELSE IF contextAfterExtract(r.fs, buildContext).panic
                   THEN /\ pc' = "panicked"
                        /\ UNCHANGED <<buildContext, result>>
                   ELSE /\ buildContext' = contextAfterExtract(r.fs, buildContext).context
                        /\ pc' = "symlinks"
                        /\ UNCHANGED result
       ELSE /\ pc' = "symlinks"
            /\ UNCHANGED <<fs, log, result, buildContext>>
    /\ UNCHANGED <<procs, recipe, Sources, sourceCache, workingDir, buildOrder, idx, errors>>

\* setupBuildSteps returns setupSymlinks; buildSteps goes on to the stages
SetupSymlinks ==
    /\ pc = "symlinks"
    /\ LET r == setupSymlinks(fs, Sources, workingDir)
       IN  /\ fs' = r.fs
           /\ log' = Append(log, [op |-> "setupSymlinks", linked |-> r.linked, err |-> r.err])
           /\ IF IsErr(r.err)
              THEN /\ result' = r.err
                   /\ pc' = "returned"
                   /\ UNCHANGED idx
              ELSE /\ pc' = "stages"
                   /\ idx' = 1
                   /\ UNCHANGED result
    /\ UNCHANGED <<procs, recipe, Sources, sourceCache, workingDir, buildContext, buildOrder, errors>>

\* The exit status of the shell that ran a stage; the history entry of a
\* stage names the cached files its source directory links to
ExitStatus == {0, 1}

\* buildSteps: one iteration of the loop over s.buildOrder
ExecuteStage ==
    /\ pc = "stages"
    /\ idx <= Len(buildOrder)
    /\ IF buildOrder[idx].cmd # <<>>
       THEN \E status \in ExitStatus, parent \in ParentEnvs :
              /\ LET cmd == stageCmd(parent, buildOrder[idx].cmd, workingDir, buildContext)
                 IN  log' = Append(log, [op |-> "executeStage", name |-> buildOrder[idx].name,
                                         dir |-> cmd.Dir, env |-> processEnv(parent, cmd),
                                         status |-> status,
                                         visible |-> {fs[p].target : p \in ReadDir(fs, Join(workingDir, src))}])
              /\ IF IsErr(stageErr(status))
                 THEN /\ result' = stageErr(status)
                      /\ pc' = "returned"
                      /\ UNCHANGED idx
                 ELSE /\ idx' = idx + 1
                      /\ UNCHANGED <<pc, result>>
       ELSE /\ idx' = idx + 1
            /\ UNCHANGED <<pc, result, log>>
    /\ UNCHANGED <<procs, recipe, fs, Sources, sourceCache, workingDir, buildContext, buildOrder, errors>>

\* buildSteps: every stage was run or skipped
BuildStepsReturn ==
    /\ pc = "stages"
    /\ idx > Len(buildOrder)
    /\ result' = NoErr
    /\ pc' = "returned"
    /\ UNCHANGED <<procs, recipe, fs, Sources, sourceCache, workingDir, buildContext, buildOrder, idx, errors, log>>

\* spec.Cleanup(), called before a build or after buildSteps returned
Cleanup ==
    /\ pc \in {"new", "returned", "cleaned"}
    /\ fs' = CleanupFS(fs, workingDir)
    /\ pc' = IF pc = "new" THEN "new" ELSE "cleaned"
    /\ UNCHANGED <<procs, recipe, Sources, sourceCache, workingDir, buildContext, buildOrder, idx, errors, result, log>>

\* NewSpec: spec.validateSchema(path, json); the caller gives the path of a document
ValidateSchema ==
    /\ pc = "NewSpec"
    /\ \E doc \in Documents, unmarshalFault \in BOOLEAN :
         LET r == validateSchema(recipe, Sources, doc, unmarshalFault)
         IN  /\ recipe' = r.recipe
             /\ Sources' = r.sources
             /\ log' = Append(log, [op |-> "validateSchema", doc |-> doc, err |-> r.err])
             /\ IF IsErr(r.err)
                THEN /\ result' = r.err
                     /\ pc' = "failed"
                ELSE /\ pc' = "renderAll"
                     /\ UNCHANGED result
    /\ UNCHANGED <<procs, fs, sourceCache, workingDir, buildContext, buildOrder, idx, errors>>

\* NewSpec: spec.renderAll()
RenderAll ==
    /\ pc = "renderAll"
    /\ LET r == renderAll(recipe, Sources)
       IN  /\ recipe' = r.recipe
           /\ Sources' = r.sources
           /\ log' = Append(log, [op |-> "renderAll", err |-> r.err])
           /\ IF IsErr(r.err)
              THEN /\ result' = r.err
                   /\ pc' = "failed"
              ELSE /\ pc' = "sourceCache"
                   /\ UNCHANGED result
    /\ UNCHANGED <<procs, fs, sourceCache, workingDir, buildContext, buildOrder, idx, errors>>

\* NewSpec: the source cache of the user when none is set
SetSourceCache ==
    /\ pc = "sourceCache"
    /\ sourceCache' = IF sourceCache = <<>> THEN Cache ELSE sourceCache
    /\ idx' = 1
    /\ pc' = "validateSources"
    /\ UNCHANGED <<procs, recipe, fs, Sources, workingDir, buildContext, buildOrder, errors, result, log>>

\* NewSpec: one iteration of the loop over spec.Sources
ValidateSource_Iter ==
    /\ pc = "validateSources"
    /\ idx <= Len(Sources)
    /\ LET r == validateSource(Sources[idx])
       IN  /\ Sources' = [Sources EXCEPT ![idx] = r.source]
           /\ log' = Append(log, [op |-> "validateSource", i |-> idx, err |-> r.err])
           /\ IF IsErr(r.err)
              THEN /\ result' = r.err
                   /\ pc' = "failed"
                   /\ UNCHANGED idx
              ELSE /\ idx' = idx + 1
                   /\ UNCHANGED <<pc, result>>
    /\ UNCHANGED <<procs, recipe, fs, sourceCache, workingDir, buildContext, buildOrder, errors>>

\* NewSpec: the build order is set and the Spec returned
NewSpecReturn ==
    /\ pc = "validateSources"
    /\ idx > Len(Sources)
    /\ buildOrder' = BuildOrder(recipe.Build, recipe.Test, recipe.Install)
    /\ pc' = "new"
    /\ UNCHANGED <<procs, recipe, fs, Sources, sourceCache, workingDir, buildContext, idx, errors,
                   result, log>>

Next ==
    \/ BuildSteps
    \/ FetchSources_Iter
    \/ FetchSourcesFailed
    \/ CreateWorkingDir
    \/ ExtractArchive
    \/ SetupSymlinks
    \/ ExecuteStage
    \/ BuildStepsReturn
    \/ Cleanup

Spec == Init /\ [][Next]_vars

NextFetch == FetchSourceCall

\* NewSpec on a document, then the build with the Spec it returned
NextNew ==
    \/ ValidateSchema
    \/ RenderAll
    \/ SetSourceCache
    \/ ValidateSource_Iter
    \/ NewSpecReturn
    \/ Next

SpecNew == InitNew /\ [][NextNew]_vars

SpecFetch == InitFetch /\ [][NextFetch]_vars

SpecContext == InitContext /\ [][Next]_vars

NextRender == RenderAllCall

SpecRender == InitRender /\ [][NextRender]_vars

NextConcurrent == \E p \in Procs : FetchSourceStep(p)

SpecConcurrent == InitConcurrent /\ [][NextConcurrent]_vars

NextHelper == EnsureDirCall \/ FetchHTTPCall \/ MereFetchCall

SpecHelper == InitHelper /\ [][NextHelper]_vars

NextSource == ValidateSourceCall \/ FetchSourceCall

SpecSource == InitSource /\ [][NextSource]_vars

----------------------------------------------------------------------------
(* Properties of fetchSource, checked under SpecFetch *)

Mismatch(expected, actual) ==
    [kind |-> "b3sum mismatch", code |-> 0, expected |-> expected, actual |-> actual]

\* C1: whenever fetchSource returned success, on the cache-hit path and on
\* the download/copy path, a regular file is at savePath on return, its
\* digest equals the source's B3Sum, and savePath is the path recorded in
\* the source.
C1_SuccessMeansVerified ==
    \A k \in 1..Len(log) :
        (log[k].op = "fetchSource" /\ ~IsErr(log[k].err)) =>
            /\ log[k].post.kind = "file"
            /\ computeB3Sum(log[k].post.data) = Sources[log[k].i].B3Sum
            /\ Sources[log[k].i].savePath = log[k].savePath
            /\ IsFile(fs, log[k].savePath)
            /\ computeB3Sum(fs[log[k].savePath].data) = Sources[log[k].i].B3Sum

\* A download succeeded and the next call succeeded as a cache hit
C1_Witness ==
    /\ Len(log) >= 2
    /\ ~IsErr(log[1].err) /\ log[1].transport = httpProto /\ log[1].pre.kind = "absent"
    /\ ~IsErr(log[2].err) /\ log[2].transport = "none" /\ log[2].pre.kind = "file"

\* C2: if a file is at savePath when fetchSource is called, no transport is
\* invoked, no request is made, the file is left as it was, and the result is
\* the result of the digest check of that file against B3Sum: nil on a
\* match, the mismatch error with both digests otherwise.
C2_CacheHitOnlyVerifies ==
    \A k \in 1..Len(log) :
        (log[k].op = "fetchSource" /\ log[k].pre.kind = "file") =>
            /\ log[k].transport = "none"
            /\ log[k].net = 0
            /\ log[k].post = log[k].pre
            /\ log[k].err = IF computeB3Sum(log[k].pre.data) = Sources[log[k].i].B3Sum
                            THEN NoErr
                            ELSE Mismatch(Sources[log[k].i].B3Sum, computeB3Sum(log[k].pre.data))

\* A call found a file with another digest and returned the mismatch, for an
\* http source whose server would have answered
C2_Witness ==
    \E k \in 1..Len(log) :
        /\ log[k].pre.kind = "file"
        /\ log[k].err.kind = "b3sum mismatch"
        /\ Sources[1].protocol = httpProto

\* C3 as claimed: two successive fetchSource calls on one source make at most
\* one HTTP request in total, whatever the outcome of the first call.
C3_AtMostOneRequest ==
    Len(log) >= 2 => log[1].net + log[2].net <= 1

\* C3 as it holds: when a call leaves a file at savePath (success, a body
\* read error after the file was created, a digest mismatch, a cache hit), the
\* next call is a cache hit that makes no request and invokes no transport;
\* when a call of an http source fails with a transport error or an HTTP
\* status error, no file is left and the next call makes the request again.
C3_SecondCallHitsCacheIfFileLeft ==
    \A k \in 1..(Len(log) - 1) :
        /\ log[k].post.kind = "file" =>
              /\ log[k + 1].pre.kind = "file"
              /\ log[k + 1].transport = "none"
              /\ log[k + 1].net = 0
              /\ log[k].net + log[k + 1].net <= 1
        /\ (log[k].net = 1 /\ log[k].err.kind \in {"transport", "http"}) =>
              /\ log[k].post.kind = "absent"
              /\ log[k + 1].net = 1

\* A body read error left a file and the next call was a cache hit
C3_Witness ==
    /\ Len(log) >= 2
    /\ log[1].net = 1 /\ log[1].err.kind = "read" /\ log[1].post.kind = "file"
    /\ log[2].transport = "none" /\ log[2].net = 0

\* strings.EqualFold on two hex strings
EqualFold(a, b) == ToUpper(a) = ToUpper(b)

\* C13 as claimed: whenever the digest check ran on the file at savePath and
\* the expected string equals the hex digest of the file up to letter case,
\* the check and fetchSource succeed; a mismatch error carries the expected
\* and the actual digest.
C13_DigestCheckIgnoresCase ==
    \A k \in 1..Len(log) :
        (/\ log[k].op = "fetchSource"
         /\ log[k].post.kind = "file"
         /\ log[k].err.kind \in {"nil", "b3sum mismatch"}) =>
            /\ EqualFold(computeB3Sum(log[k].post.data), Sources[log[k].i].B3Sum)
                  => ~IsErr(log[k].err)
            /\ IsErr(log[k].err) =>
                  /\ log[k].err.expected = Sources[log[k].i].B3Sum
                  /\ log[k].err.actual = computeB3Sum(log[k].post.data)

\* C14: when the download or the copy completed and the digest check failed,
\* fetchSource returns the mismatch error and the fetched file is at
\* savePath, whole; and no call of fetchSource removes or changes a file
\* that was in the source cache.
C14_MismatchLeavesTheFile ==
    /\ [](\A k \in 1..Len(log) :
            (/\ log[k].op = "fetchSource"
             /\ log[k].transport # "none"
             /\ log[k].err.kind = "b3sum mismatch") =>
                /\ log[k].pre.kind = "absent"
                /\ log[k].post.kind = "file"
                /\ log[k].post.data # "trunc"
                /\ log[k].err.actual = computeB3Sum(log[k].post.data)
                /\ IsFile(fs, log[k].savePath)
                /\ fs[log[k].savePath] = log[k].post)
    /\ [][\A p \in DOMAIN fs :
            (IsPrefix(sourceCache, p) /\ IsFile(fs, p)) => (p \in DOMAIN fs' /\ fs'[p] = fs[p])]_vars

\* A download completed, the digest of the body is not the expected one,
\* and the next call found the body at savePath
C14_Witness ==
    /\ Len(log) = 2
    /\ log[1].transport = httpProto /\ log[1].err.kind = "b3sum mismatch"
    /\ log[1].post = File("text")
    /\ log[2].pre = File("text") /\ log[2].transport = "none"
    /\ fs[log[1].savePath] = File("text")

----------------------------------------------------------------------------
(* Properties of the build, checked under Spec *)

IsFetch(e) == e.op = "fetchSource"
IsStage(e) == e.op = "executeStage"

FetchLog == SelectSeq(log, IsFetch)
StageLog == SelectSeq(log, IsStage)
FailedFetches == SelectSeq(FetchLog, LAMBDA e : IsErr(e.err))

\* fetchSources has returned
FetchSourcesReturned ==
    \/ pc \notin {"new", "fetchSources"}
    \/ pc = "fetchSources" /\ idx > Len(Sources)

\* C4: fetchSources calls fetchSource once for every source, in recipe order,
\* whatever failed before; the list it returns holds the errors of the failing
\* sources, one each, in the order of the sources.
C4_EverySourceFetchedOnceInOrder ==
    /\ \A k \in 1..Len(FetchLog) : FetchLog[k].i = k
    /\ Len(FetchLog) <= Len(Sources)
    /\ pc = "fetchSources" => Len(FetchLog) = idx - 1
    /\ Len(errors) = Len(FailedFetches)
    /\ \A k \in 1..Len(errors) : errors[k] = FailedFetches[k].err
    /\ FetchSourcesReturned =>
          /\ Len(FetchLog) = Len(Sources)
          /\ (errors = <<>>) <=> (\A k \in 1..Len(FetchLog) : ~IsErr(FetchLog[k].err))

\* The first source failed, the second was fetched all the same and
\* succeeded; and two sources failed with different errors
C4_Witness ==
    /\ FetchSourcesReturned
    /\ Len(Sources) = 2
    /\ IsErr(FetchLog[1].err)
    /\ ~IsErr(FetchLog[2].err)
    /\ Len(errors) = 1

\* C5: when fetchSources returns an error, buildSteps returns the build error
\* that wraps the list, and in that run no working directory is created,
\* workingDir and buildContext stay unset, nothing is extracted, no symlink is
\* made and no stage is run.
C5_FetchErrorsStopTheBuild ==
    /\ (FetchSourcesReturned /\ Len(errors) # 0) => pc \in {"fetchSources", "returned", "cleaned"}
    /\ (pc \in {"returned", "cleaned"} /\ Len(errors) # 0) =>
          /\ result = BuildError(errors)
          /\ workingDir = <<>>
          /\ buildContext = <<>>
          /\ ReadDir(fs, TempRoot) = {}
          /\ \A k \in 1..Len(log) : log[k].op = "fetchSource"
          /\ \A p \in DOMAIN fs : fs[p].kind # "link"

C5_Witness ==
    /\ pc = "returned"
    /\ result.kind = "build error"
    /\ Len(Sources) = 2
    /\ Len(errors) = 1

Rank(name) == CASE name = "build" -> 1 [] name = "test" -> 2 [] name = "install" -> 3

StageNames == {"build", "test", "install"}

\* The script of a stage, as NewSpec put it into the build order
CmdOf(name) == (CHOOSE k \in 1..Len(buildOrder) : buildOrder[k].name = name)

\* C6: the stages run in the order build, test, install; a stage with an
\* empty script is not run; no stage is started twice; a stage is started
\* only after every earlier stage with a script has exited with status 0.
C6_StagesInOrder ==
    /\ \A j, k \in 1..Len(StageLog) :
          j < k => Rank(StageLog[j].name) < Rank(StageLog[k].name) /\ StageLog[j].status = 0
    /\ \A k \in 1..Len(StageLog) :
          /\ buildOrder[CmdOf(StageLog[k].name)].cmd # <<>>
          /\ \A n \in StageNames :
                (Rank(n) < Rank(StageLog[k].name) /\ buildOrder[CmdOf(n)].cmd # <<>>) =>
                    \E j \in 1..(k - 1) : StageLog[j].name = n /\ StageLog[j].status = 0

\* build was skipped for its empty script, test and install ran in this order
C6_Witness ==
    /\ Len(StageLog) = 2
    /\ buildOrder[1].cmd = <<>>
    /\ StageLog[1].name = "test"
    /\ StageLog[2].name = "install"

\* C7: when a stage exits with a status other than 0, buildSteps returns the
\* error with that status and no later stage is run; buildSteps returns nil
\* only when every stage with a script has exited with status 0.
C7_FirstFailingStageIsReturned ==
    /\ \A k \in 1..Len(log) :
          (log[k].op = "executeStage" /\ log[k].status # 0) =>
              /\ k = Len(log)
              /\ pc \in {"returned", "cleaned"}
              /\ result.kind = "exit status"
              /\ result.code = log[k].status
    /\ result = NoErr =>
          \A n \in StageNames :
              buildOrder[CmdOf(n)].cmd # <<>> =>
                  \E k \in 1..Len(StageLog) : StageLog[k].name = n /\ StageLog[k].status = 0

\* build passed, test failed, install has a script and was not run
C7_Witness ==
    /\ pc = "returned"
    /\ Len(StageLog) = 2
    /\ StageLog[1].status = 0
    /\ StageLog[2].name = "test" /\ StageLog[2].status = 1
    /\ buildOrder[3].cmd # <<>>
    /\ result.kind = "exit status"

\* The cached paths whose fetchSource call failed in this build
Rejected == {FailedFetches[k].savePath : k \in 1..Len(FailedFetches)}

\* C8: the primary archive is extracted, the symlinks are made and a stage is
\* run only after fetchSource has returned nil for every source; a cached
\* file whose digest check failed in this build is not extracted, not linked
\* and no stage runs while it is there.
C8_NothingUsedBeforeAllVerified ==
    /\ \A k \in 1..Len(log) :
          log[k].op \in {"createWorkingDir", "extractArchive", "setupSymlinks", "executeStage"} =>
              /\ errors = <<>>
              /\ \A i \in 1..Len(Sources) :
                    \E j \in 1..(k - 1) :
                        log[j].op = "fetchSource" /\ log[j].i = i /\ ~IsErr(log[j].err)
    /\ \A k \in 1..Len(log) : log[k].op = "extractArchive" => log[k].file \notin Rejected
    /\ \A p \in DOMAIN fs : fs[p].kind = "link" => fs[p].target \notin Rejected
    /\ \A k \in 1..Len(StageLog) : StageLog[k].visible \cap Rejected = {}
    /\ Rejected # {} => StageLog = <<>>

\* Two sources were verified, the first was extracted, both are linked and a stage ran
C8_Witness ==
    /\ Len(Sources) = 2
    /\ Len(StageLog) >= 1
    /\ \E k \in 1..Len(log) : log[k].op = "extractArchive" /\ ~IsErr(log[k].err)
    /\ Cardinality({p \in DOMAIN fs : fs[p].kind = "link"}) = 2

\* C9 as claimed: on every exit path of buildSteps, after the Cleanup that
\* follows no directory this build created in the temp root is left.
C9_CleanupLeavesNoBuildDirectory ==
    pc = "cleaned" => ReadDir(fs, TempRoot) = {}

\* C10: Cleanup with an empty workingDir removes nothing, and every Cleanup
\* removes only paths at or below a non-empty workingDir, changes no entry
\* that stays, and leaves the source cache and its files as they were.
C10_CleanupRemovesOnlyTheWorkingDir ==
    [][Cleanup =>
          /\ workingDir = <<>> => fs' = fs
          /\ \A p \in DOMAIN fs :
                /\ p \notin DOMAIN fs' => (workingDir # <<>> /\ IsPrefix(workingDir, p))
                /\ p \in DOMAIN fs' => fs'[p] = fs[p]
                /\ IsPrefix(sourceCache, p) => p \in DOMAIN fs'
          /\ DOMAIN fs' \subseteq DOMAIN fs]_vars

\* Cleanup ran after a build that failed before workingDir was set, and the
\* cache and a cached file are still there
C10_Witness ==
    /\ pc = "cleaned"
    /\ workingDir = <<>>
    /\ IsErr(result)
    /\ \E p \in DOMAIN fs : IsPrefix(sourceCache, p) /\ Len(p) > Len(sourceCache)

\* The names of the entries of a directory
Children(f, dir) == {Base(p) : p \in ReadDir(f, dir)}

\* setupBuildSteps returned nil in this build
SetupSucceeded ==
    \E k \in 1..Len(log) : log[k].op = "setupSymlinks" /\ ~IsErr(log[k].err)

\* C11: after buildSteps has returned, the working directory does not exist
\* or its entries are among build, package and source, and so are the
\* entries of every directory the build made in the temp root; when the
\* setup succeeded, the three directories exist until Cleanup.
C11_WorkingDirHoldsOnlyTheThreeDirectories ==
    /\ pc \in {"returned", "cleaned"} =>
          /\ \/ ~Exists(fs, workingDir)
             \/ Children(fs, workingDir) \subseteq {build, pkg, src}
          /\ \A wd \in ReadDir(fs, TempRoot) : Children(fs, wd) \subseteq {build, pkg, src}
    /\ (SetupSucceeded /\ pc \in {"stages", "returned"}) =>
          /\ IsDir(fs, workingDir)
          /\ \A d \in {build, pkg, src} : IsDir(fs, Join(workingDir, d))

\* buildSteps returned after the setup of a build with two sources: the
\* archive was extracted below build, both links are below source
C11_Witness ==
    /\ pc = "returned"
    /\ SetupSucceeded
    /\ Cardinality(ReadDir(fs, Join(workingDir, src))) = 2
    /\ ReadDir(fs, Join(workingDir, build)) # {}
    /\ Children(fs, workingDir) = {build, pkg, src}

\* C12: every stage process has exactly the two variables MERE_PKGDIR =
\* workingDir/package and MERE_SRCDIR = workingDir/source in its environment
\* and runs in buildContext; whatever the environment of the parent process
\* is, the stage gets the same environment.
C12_StageEnvironmentIsTheTwoVariables ==
    /\ \A k \in 1..Len(StageLog) :
          /\ Len(StageLog[k].env) = 2
          /\ {StageLog[k].env[n] : n \in 1..2} =
                {<<"MERE_PKGDIR", Join(workingDir, "package")>>,
                 <<"MERE_SRCDIR", Join(workingDir, "source")>>}
          /\ StageLog[k].dir = buildContext
    /\ pc = "stages" =>
          \A p1 \in ParentEnvs, p2 \in ParentEnvs, stage \in Scripts :
              processEnv(p1, stageCmd(p1, stage, workingDir, buildContext))
                = processEnv(p2, stageCmd(p2, stage, workingDir, buildContext))

\* Two stages ran in the top directory of the extracted archive
C12_Witness ==
    /\ Len(StageLog) = 2
    /\ buildContext = Join(Join(workingDir, build), "top")
    /\ StageLog[2].dir = buildContext
    /\ StageLog[2].env[2] = <<mereSrcdir, Join(workingDir, src)>>

----------------------------------------------------------------------------
(* Properties of NewSpec and of the build that follows it, checked under SpecNew *)

\* NewSpec was called on the document TheDoc
NewSpecCalled == Len(log) >= 1 /\ log[1].op = "validateSchema"

TheDoc == log[1].doc

\* NewSpec returned a Spec
NewSpecSucceeded == pc \notin {"NewSpec", "renderAll", "sourceCache", "validateSources", "failed"}

\* The document violates the schema: a required field is missing, release
\* is not an integer, a b3sum has not the length the schema asks for
HasSchemaViolation(doc) ==
    \/ ~doc.hasVersion
    \/ doc.release.type # "integer"
    \/ \E i \in 1..Len(doc.sources) : Len(doc.sources[i].b3sum) # 2 * DigestSize

\* A template that does not parse or names a field the recipe does not have
BadTemplate(v) ==
    \E n \in 1..Len(v) : v[n] \in {"{{}", "{{.Versio}}", "{{.FakeField}}"}

\* The templates of the rendered fields of a document, in the order of rendering
Templates(doc) ==
    [i \in 1..Len(doc.sources) |-> doc.sources[i].url]
    \o Concat([i \in 1..Len(doc.packages) |-> doc.packages[i].files])
    \o <<doc.build, doc.test, doc.install>>

\* What a template of a document is to render to
RECURSIVE Expanded(_, _)
Expanded(doc, v) ==
    IF v = <<>> THEN <<>>
    ELSE (CASE Head(v) = "{{.Name}}"    -> doc.name
            [] Head(v) = "{{.Version}}" -> doc.version
            [] Head(v) = "{{.Home}}"    -> doc.home
            [] OTHER                    -> <<Head(v)>>) \o Expanded(doc, Tail(v))

\* C15: NewSpec validates the document against the schema before it renders
\* any template: renderAll runs only on a document that was read, has no
\* schema violation and was deserialized into the Spec; for a document with
\* a schema violation, also one with bad templates, NewSpec returns the
\* schema error, has rendered nothing and returns no Spec.
C15_SchemaValidationBeforeRendering ==
    NewSpecCalled =>
        /\ (pc = "renderAll" \/ \E k \in 1..Len(log) : log[k].op = "renderAll") =>
              /\ TheDoc.read = "ok"
              /\ ~HasSchemaViolation(TheDoc)
              /\ ~IsErr(log[1].err)
        /\ pc = "renderAll" =>
              /\ recipe.Build = TheDoc.build /\ recipe.Test = TheDoc.test
              /\ recipe.Install = TheDoc.install /\ recipe.Version = TheDoc.version
              /\ Len(Sources) = Len(TheDoc.sources)
              /\ \A i \in 1..Len(Sources) : Sources[i].URL = TheDoc.sources[i].url
        /\ (TheDoc.read = "ok" /\ HasSchemaViolation(TheDoc)) =>
              /\ pc = "failed"
              /\ result.kind = "invalid spec file"
              /\ Len(log) = 1
              /\ recipe = ZeroSpec
              /\ Sources = <<>>

\* NewSpec failed on a document with a schema violation and a bad template
C15_Witness ==
    /\ NewSpecCalled
    /\ pc = "failed"
    /\ TheDoc.release.type = "string"
    /\ BadTemplate(TheDoc.build)
    /\ result.kind = "invalid spec file"

\* C16: when a template of a rendered field (a source url, a files entry,
\* build, test, install) of a valid document does not parse or names a field
\* the recipe does not have, NewSpec fails with the rendering error, which
\* has one message for each such template, and returns no Spec; in a Spec
\* NewSpec returned every rendered field is the expansion of its template.
C16_BadTemplateFailsNewSpec ==
    NewSpecCalled =>
        /\ (/\ ~IsErr(log[1].err)
            /\ pc # "renderAll"
            /\ \E n \in 1..Len(Templates(TheDoc)) : BadTemplate(Templates(TheDoc)[n])) =>
              /\ pc = "failed"
              /\ result.kind = "rendering error"
              /\ Len(result.errmsgs) = Len(SelectSeq(Templates(TheDoc), BadTemplate))
              /\ \A n \in 1..Len(result.errmsgs) : result.errmsgs[n].kind = "template"
        /\ NewSpecSucceeded =>
              /\ \A n \in 1..Len(Templates(TheDoc)) : ~BadTemplate(Templates(TheDoc)[n])
              /\ recipe.Build = Expanded(TheDoc, TheDoc.build)
              /\ recipe.Test = Expanded(TheDoc, TheDoc.test)
              /\ recipe.Install = Expanded(TheDoc, TheDoc.install)
              /\ \A i \in 1..Len(recipe.Packages) : \A j \in 1..Len(recipe.Packages[i].Files) :
                    recipe.Packages[i].Files[j] = Expanded(TheDoc, TheDoc.packages[i].files[j])
              /\ \A i \in 1..Len(Sources) :
                    Sources[i].URL = Expanded(TheDoc, TheDoc.sources[i].url)

\* NewSpec failed with two messages: build names an unknown field, install
\* does not parse
C16_Witness ==
    /\ NewSpecCalled
    /\ pc = "failed"
    /\ result.kind = "rendering error"
    /\ Len(result.errmsgs) = 2
    /\ TheDoc.build = <<"{{.Versio}}">>
    /\ result.errmsgs[1].field = "Versio"

\* The scheme a URL text names: what precedes the colon
SchemeOf(u) == IF Len(u) >= 2 /\ u[2] = ":" THEN u[1] ELSE ""

\* The path of a URL text
PathOf(u) == IF Len(u) >= 2 /\ u[2] = ":" THEN SubSeq(u, 3, Len(u)) ELSE u

\* The serialized fields of the sources
Serialized(sources) ==
    [i \in 1..Len(sources) |->
        [URL |-> sources[i].URL, B3Sum |-> sources[i].B3Sum, LocalName |-> sources[i].LocalName]]

RenderAllCompleted == pc \notin {"NewSpec", "renderAll"}

\* C17 as claimed: once renderAll has completed no step of NewSpec, of the
\* build or of Cleanup changes a serialized field of the recipe.
C17_NoSerializedFieldChanges ==
    [][RenderAllCompleted => (recipe' = recipe /\ Serialized(Sources') = Serialized(Sources))]_vars

\* C17 as it holds: once renderAll has completed no step changes a serialized
\* field other than sources[].localName; validateSource, in the loop of
\* NewSpec, sets an empty localName to the path of the URL of the source;
\* once NewSpec has returned no serialized field changes.
C17_OnlyLocalNameIsFilledIn ==
    [][RenderAllCompleted =>
          /\ recipe' = recipe
          /\ Len(Sources') = Len(Sources)
          /\ \A i \in 1..Len(Sources) :
                /\ Sources'[i].URL = Sources[i].URL
                /\ Sources'[i].B3Sum = Sources[i].B3Sum
                /\ \/ Sources'[i].LocalName = Sources[i].LocalName
                   \/ /\ pc = "validateSources" /\ i = idx
                      /\ Sources[i].LocalName = <<>>
                      /\ Sources'[i].LocalName = PathOf(Sources[i].URL)
          /\ NewSpecSucceeded => Serialized(Sources') = Serialized(Sources)]_vars

\* A build ran to its end and was cleaned up; the local name of its first
\* source, which the document does not give, is the path of the URL
C17_Witness ==
    /\ NewSpecCalled
    /\ pc = "cleaned"
    /\ result = NoErr
    /\ Len(Sources) = 2
    /\ TheDoc.sources[1].localName = <<>>
    /\ Sources[1].LocalName = <<"up", "a">>
    /\ StageLog # <<>>

HexChars ==
    {"0", "1", "2", "3", "4", "5", "6", "7", "8", "9",
     "a", "b", "c", "d", "e", "f", "A", "B", "C", "D", "E", "F"}

\* C18 as claimed: when NewSpec succeeded every b3sum has the length of a hex
\* digest and consists of hex digits; a document with a b3sum of another
\* length or with another character makes NewSpec fail.
C18_B3SumIsHexOfDigestLength ==
    NewSpecCalled =>
        /\ NewSpecSucceeded =>
              \A i \in 1..Len(Sources) :
                  /\ Len(Sources[i].B3Sum) = 2 * DigestSize
                  /\ \A n \in 1..Len(Sources[i].B3Sum) : Sources[i].B3Sum[n] \in HexChars
        /\ (/\ TheDoc.read = "ok"
            /\ \E i \in 1..Len(TheDoc.sources) :
                  \/ Len(TheDoc.sources[i].b3sum) # 2 * DigestSize
                  \/ \E n \in 1..Len(TheDoc.sources[i].b3sum) :
                        TheDoc.sources[i].b3sum[n] \notin HexChars) => ~NewSpecSucceeded

\* C18 as it holds: when NewSpec succeeded every b3sum has the length of a
\* hex digest; a document with a b3sum that is one character shorter or
\* longer makes NewSpec fail with the schema error; NewSpec does not look at
\* the characters.
C18_B3SumHasDigestLength ==
    NewSpecCalled =>
        /\ NewSpecSucceeded =>
              \A i \in 1..Len(Sources) :
                  /\ Sources[i].B3Sum = TheDoc.sources[i].b3sum
                  /\ Len(Sources[i].B3Sum) = 2 * DigestSize
        /\ (/\ TheDoc.read = "ok"
            /\ \E i \in 1..Len(TheDoc.sources) :
                  Len(TheDoc.sources[i].b3sum) # 2 * DigestSize) =>
              /\ pc = "failed"
              /\ result.kind = "invalid spec file"
              /\ \E n \in 1..Len(result.violations) : result.violations[n][1] = "b3sum"

\* NewSpec returned a Spec whose b3sum has the length and no hex digit
C18_Witness ==
    /\ NewSpecCalled
    /\ pc = "new"
    /\ Len(Sources) = 1
    /\ Len(Sources[1].B3Sum) = 2 * DigestSize
    /\ \A n \in 1..Len(Sources[1].B3Sum) : Sources[1].B3Sum[n] \notin HexChars

\* C19: validateSource tags a URL with the scheme file or with no scheme
\* with the protocol file, one with http or https with the protocol http,
\* fails on any other scheme with the unsupported-scheme error that names the
\* scheme, and fails on a URL that starts with the colon with missing
\* protocol scheme; NewSpec fails with that error.  After NewSpec succeeded
\* every source has the protocol file or http, and no call of fetchSource on
\* such a source, whatever the environment does, ends in the
\* unsupported-protocol branch.
C19_SchemeDecidesTheProtocol ==
    /\ \A k \in 1..Len(log) :
          log[k].op = "validateSource" =>
              LET source == Sources[log[k].i]
                  u == source.URL
              IN  IF u # <<>> /\ u[1] = ":"
                  THEN /\ log[k].err.kind = "missing protocol scheme"
                       /\ pc = "failed" /\ result = log[k].err
                  ELSE IF SchemeOf(u) \in {"", "file"}
                  THEN /\ source.protocol = "file"
                       /\ log[k].err.kind \in {"nil", "no path element detected"}
                  ELSE IF SchemeOf(u) \in {"http", "https"}
                  THEN /\ source.protocol = "http"
                       /\ log[k].err.kind \in {"nil", "no path element detected"}
                  ELSE /\ log[k].err.kind = "unsupported protocol scheme"
                       /\ log[k].err.scheme = SchemeOf(u)
                       /\ pc = "failed" /\ result = log[k].err
    /\ NewSpecSucceeded =>
          \A i \in 1..Len(Sources) :
              /\ Sources[i].protocol \in {"file", "http"}
              /\ \E k \in 1..Len(log) :
                    log[k].op = "validateSource" /\ log[k].i = i /\ ~IsErr(log[k].err)
              /\ \A env \in FetchEnvs :
                    fetchSource(env, sourceCache, Sources[i], fs).err.kind
                        # "unsupported or missing protocol scheme"
    /\ \A k \in 1..Len(log) :
          log[k].op = "fetchSource" => log[k].err.kind # "unsupported or missing protocol scheme"

\* NewSpec returned a Spec with a source without scheme and an https source,
\* and both were fetched
C19_Witness ==
    /\ pc = "returned"
    /\ Len(Sources) = 2
    /\ SchemeOf(Sources[1].URL) = "" /\ Sources[1].protocol = "file"
    /\ SchemeOf(Sources[2].URL) = "https" /\ Sources[2].protocol = "http"
    /\ Len(FetchLog) = 2

\* sourceCache + "/" + basename(localName if set, else the URL path)
ExpectedSavePath(i) ==
    Join(sourceCache, Base(IF TheDoc.sources[i].localName # <<>>
                           THEN TheDoc.sources[i].localName
                           ELSE PathOf(Sources[i].URL)))

\* C20 as claimed: when NewSpec has returned a Spec, every source has its
\* savePath, sourceCache/basename(localName if set, else the URL path).
C20_SavePathChosenByNewSpec ==
    (NewSpecCalled /\ NewSpecSucceeded) =>
        \A i \in 1..Len(Sources) : Sources[i].savePath = ExpectedSavePath(i)

\* The fetchSource call of this build on the i-th source got past ensureDir
Fetched(i) ==
    \E k \in 1..Len(log) :
        /\ log[k].op = "fetchSource" /\ log[k].i = i
        /\ log[k].err.kind \notin {"mkdir", "stat", "not a directory"}

\* C20 as it holds: when NewSpec returns, sourceCache is set and savePath is
\* still empty for every source; fetchSource, once the cache directory is
\* there, sets savePath to sourceCache/basename(localName if set, else the
\* URL path), and neither savePath nor sourceCache changes afterwards.
C20_SavePathChosenByFetchSource ==
    /\ []((NewSpecCalled /\ NewSpecSucceeded) =>
            /\ sourceCache = Join(Join(<<"home">>, ".mere"), "src")
            /\ \A i \in 1..Len(Sources) :
                  Sources[i].savePath = IF Fetched(i) THEN ExpectedSavePath(i) ELSE <<>>)
    /\ [][/\ \A i \in 1..Len(Sources) :
               Sources[i].savePath # <<>> =>
                   (i \in 1..Len(Sources') /\ Sources'[i].savePath = Sources[i].savePath)
          /\ sourceCache # <<>> => sourceCache' = sourceCache]_vars

\* A source with a local name was downloaded and verified: it is saved
\* under the base of the local name
C20_Witness ==
    /\ NewSpecCalled
    /\ pc = "returned"
    /\ \E i \in 1..Len(Sources) :
          /\ TheDoc.sources[i].localName = <<"dl", "a">>
          /\ Sources[i].savePath = <<"home", ".mere", "src", "a">>
          /\ \E k \in 1..Len(log) :
                log[k].op = "fetchSource" /\ log[k].i = i /\ ~IsErr(log[k].err)

----------------------------------------------------------------------------
(* Properties of the cached name of a source, checked under SpecSource *)

StrictlyInside(p, dir) == IsPrefix(dir, p) /\ Len(p) > Len(dir)

\* The name a source is cached under: localName when set, else the URL path
NameOf(raw) == IF raw.LocalName # <<>> THEN raw.LocalName ELSE PathOf(raw.URL)

\* The basename of a name is empty, "/", "." or ".."
NoBasename(name) == name = <<>> \/ name[Len(name)] \in {"", "/", ".", ".."}

\* C21: a source whose name (localName when set, else the URL path) has a
\* basename that is empty, "/", "." or ".." is rejected by validateSource
\* with no-path-element, and every other source of a supported scheme
\* passes; for a source that passed, the savePath fetchSource uses is
\* sourceCache followed by one component, the basename of the name, which is
\* not empty, ".", ".." or "/", so the file it names is strictly inside
\* sourceCache.
C21_SavePathStrictlyInsideTheCache ==
    /\ \A k \in 1..Len(log) :
          log[k].op = "validateSource" =>
              /\ NoBasename(NameOf(log[k].raw)) =>
                    /\ log[k].err.kind = "no path element detected"
                    /\ pc = "rejected"
                    /\ Len(log) = k
              /\ ~NoBasename(NameOf(log[k].raw)) => (log[k].err = NoErr /\ pc = "fetch")
    /\ \A k \in 1..Len(log) :
          log[k].op = "fetchSource" =>
              LET sp == log[k].savePath
                  raw == log[1].raw
              IN  /\ Len(sp) = Len(sourceCache) + 1
                  /\ Parent(sp) = sourceCache
                  /\ sp[Len(sp)] \notin {"", ".", "..", "/"}
                  /\ sp[Len(sp)] = NameOf(raw)[Len(NameOf(raw))]
                  /\ StrictlyInside(Clean(sp), Clean(sourceCache))
                  /\ Sources[log[k].i].savePath \in {<<>>, sp}
                  /\ \A p \in DOMAIN fs :
                        (IsFile(fs, p) /\ \A c \in InitFS : p \notin DOMAIN c) => p = sp

\* A source whose URL path ends in a file name passed validateSource and
\* was downloaded into the cache under that name
C21_Witness ==
    /\ Len(log) = 2
    /\ log[1].raw.URL = <<"https", ":", "up", "a">>
    /\ log[1].raw.LocalName = <<>>
    /\ log[2].op = "fetchSource"
    /\ log[2].pre.kind = "absent"
    /\ ~IsErr(log[2].err)
    /\ log[2].savePath = <<"home", ".mere", "src", "a">>

----------------------------------------------------------------------------
(* Properties of the file transport of fetchSource, checked under SpecFetch *)

\* C22 as claimed: on a cache miss of a file-protocol source, fetchSource
\* copies the file at the path of the URL to sourceCache/basename(localName):
\* when that file exists and the copy does not fail, the file at savePath
\* holds its bytes; when it does not exist the call fails on the open and
\* leaves no file; the local name decides only the name of the cached file.
C22_LocalNameOnlyNamesTheCachedFile ==
    \A k \in 1..Len(log) :
        (/\ log[k].op = "fetchSource"
         /\ Sources[log[k].i].protocol = "file"
         /\ log[k].pre.kind = "absent"
         /\ log[k].err.kind \notin {"mkdir", "stat", "not a directory", "read"}) =>
            LET u == PathOf(Sources[log[k].i].URL)
            IN  /\ log[k].savePath = Join(sourceCache, Base(Sources[log[k].i].LocalName))
                /\ IsFile(fs, u) =>
                      /\ log[k].post = File(fs[u].data)
                      /\ log[k].err.kind \in {"nil", "b3sum mismatch"}
                /\ ~Exists(fs, u) =>
                      /\ log[k].post.kind = "absent"
                      /\ log[k].err.kind = "open"

----------------------------------------------------------------------------
(* Properties of single calls of the helpers, checked under SpecHelper *)

\* The destination could be created in the file system f
Creatable(f, dest) == IsDir(f, Parent(dest)) /\ ~IsDir(f, dest)

\* C23: fetchHTTP fails for every status >= 400 with the HTTP error that
\* carries the status code and its reason text, and fails when the request
\* fails; in both cases the file system is as before, the destination neither
\* created nor truncated.  For a status < 400 the destination is created or
\* truncated (unless it cannot be created, which is the error returned) and
\* holds the body; when reading the body fails the error is returned and the
\* destination exists, no longer with its earlier contents.
C23_FetchHTTPStatusAndDestination ==
    \A k \in 1..Len(log) :
        log[k].op = "fetchHTTP" =>
            LET e == log[k]
            IN  /\ e.resp.doErr => (e.err.kind = "transport" /\ fs = e.before)
                /\ (~e.resp.doErr /\ e.resp.status >= 400) =>
                      /\ e.err.kind = "http"
                      /\ e.err.code = e.resp.status
                      /\ e.resp.status = 400 => e.err.text = "Bad Request"
                      /\ e.resp.status = 500 => e.err.text = "Internal Server Error"
                      /\ fs = e.before
                /\ (~e.resp.doErr /\ e.resp.status < 400) =>
                      /\ e.err.kind \in {"nil", "create", "read"}
                      /\ Creatable(e.before, e.dest) =>
                            /\ IsFile(fs, e.dest)
                            /\ e.err.kind # "create"
                            /\ e.resp.readErr <=> e.err.kind = "read"
                            /\ ~e.resp.readErr => fs[e.dest] = File(e.resp.body)
                            /\ e.resp.readErr => fs[e.dest] # File("text")
                            /\ \A p \in DOMAIN e.before : p # e.dest => fs[p] = e.before[p]
                            /\ DOMAIN fs = DOMAIN e.before \cup {e.dest}
                      /\ ~Creatable(e.before, e.dest) => (e.err.kind = "create" /\ fs = e.before)

\* The server answered 500 and the file that was at the destination is as it was
C23_Witness ==
    /\ Len(log) = 1
    /\ log[1].op = "fetchHTTP"
    /\ log[1].resp.status = 500
    /\ log[1].err.text = "Internal Server Error"
    /\ EntryAt(log[1].before, log[1].dest) = File("text")
    /\ EntryAt(fs, log[1].dest) = File("text")

\* No ancestor of the path is something other than a directory
AncestorsAreDirs(f, path) ==
    \A n \in 1..(Len(path) - 1) :
        Exists(f, SubSeq(path, 1, n)) => IsDir(f, SubSeq(path, 1, n))

\* C24: ensureDir on a path that is a directory succeeds without a call of
\* the creator; on a path that exists and is not a directory it fails with
\* not-a-directory, calls no creator and creates nothing; on a path that does
\* not exist it calls the creator once, with the path and mode 0755, and
\* returns what the creator returned; on any other stat error it returns the
\* error without a call of the creator.  After a successful ensureDir another
\* ensureDir on the path, with whatever creator, succeeds, calls no creator
\* and changes nothing.
C24_EnsureDir ==
    \A k \in 1..Len(log) :
        log[k].op = "ensureDir" =>
            LET e == log[k]
                f == e.before
                created == IF e.fault THEN [fs |-> f, err |-> "EACCES"]
                           ELSE IF e.all THEN MkdirAll(f, e.path) ELSE Mkdir(f, e.path)
            IN  /\ IsDir(f, e.path) => (e.err = NoErr /\ e.calls = <<>> /\ fs = f)
                /\ (Exists(f, e.path) /\ ~IsDir(f, e.path)) =>
                      (e.err.kind = "not a directory" /\ e.calls = <<>> /\ fs = f)
                /\ (~Exists(f, e.path) /\ AncestorsAreDirs(f, e.path)) =>
                      /\ e.calls = << [path |-> e.path, perm |-> 493] >>
                      /\ fs = created.fs
                      /\ created.err = "ok" => (e.err = NoErr /\ IsDir(fs, e.path))
                      /\ created.err # "ok" =>
                            (e.err.kind = "mkdir" /\ e.err.errno = created.err /\ fs = f)
                /\ (~Exists(f, e.path) /\ ~AncestorsAreDirs(f, e.path)) =>
                      (e.err.kind = "stat" /\ e.calls = <<>> /\ fs = f)
                /\ e.err = NoErr =>
                      \A all \in BOOLEAN, fault \in BOOLEAN :
                          ensureDir(all, fault, fs, e.path)
                              = [fs |-> fs, err |-> NoErr, calls |-> <<>>]

\* os.MkdirAll created the directory and its parent
C24_Witness ==
    /\ Len(log) = 1
    /\ log[1].op = "ensureDir"
    /\ log[1].path = <<"out", "sub">>
    /\ ~Exists(log[1].before, <<"out">>)
    /\ log[1].err = NoErr
    /\ IsDir(fs, <<"out">>) /\ IsDir(fs, <<"out", "sub">>)

\* The destination of a call of Mere.fetch: the cleaned path
DestOf(e) == Clean(e.destFile)

\* C29: Mere.fetch ensures the parent directory of the destination before
\* any transport: when that fails (the parent is not a directory, a stat
\* error, the creator fails) it returns the error and calls neither
\* fetchFile nor fetchHTTP; otherwise the scheme file calls fetchFile with
\* the path of the URL, http and https call fetchHTTP with the URL, and any
\* other scheme, the empty one too, returns the unsupported-scheme error
\* that names it, without creating the destination; the parent directory
\* can have been created by then.
C29_FetchEnsuresTheParentFirst ==
    \A k \in 1..Len(log) :
        log[k].op = "fetch" =>
            LET e == log[k]
                dest == DestOf(e)
            IN  /\ \A n \in 1..Len(e.ensured.calls) : e.ensured.calls[n].path = Parent(dest)
                /\ (Exists(e.before, Parent(dest)) /\ ~IsDir(e.before, Parent(dest))) =>
                      e.err.kind = "not a directory"
                /\ IsErr(e.ensured.err) =>
                      /\ e.err = e.ensured.err
                      /\ e.call.fn = "none"
                      /\ fs = e.before
                /\ ~IsErr(e.ensured.err) =>
                      /\ IsDir(fs, Parent(dest))
                      /\ e.u.Scheme = "file" =>
                            e.call = [fn |-> "fetchFile", src |-> e.u.Path, dest |-> dest]
                      /\ e.u.Scheme \in {"http", "https"} =>
                            e.call = [fn |-> "fetchHTTP", src |-> <<e.u.Scheme, ":">> \o e.u.Path,
                                      dest |-> dest]
                      /\ e.u.Scheme \notin {"file", "http", "https"} =>
                            /\ e.call.fn = "none"
                            /\ e.err.kind = "bad protocol scheme"
                            /\ e.err.scheme = e.u.Scheme
                            /\ fs = e.ensured.fs
                            /\ EntryAt(fs, dest) = EntryAt(e.before, dest)

\* A fetch with the scheme junk created the missing parent directories and
\* no destination file
C29_Witness ==
    /\ Len(log) = 1
    /\ log[1].op = "fetch"
    /\ log[1].u.Scheme = "junk"
    /\ log[1].err.kind = "bad protocol scheme"
    /\ ~Exists(log[1].before, <<"out">>)
    /\ IsDir(fs, <<"out", "sub">>)
    /\ ~Exists(fs, <<"out", "sub", "g">>)

----------------------------------------------------------------------------
(* Properties of concurrent invocations of fetchSource, checked under SpecConcurrent *)

\* What the p-th invocation does when it runs alone on the file system the
\* invocations started on
Alone(p) ==
    fetchSource(procs.proc[p].env, sourceCache, [Sources[p] EXCEPT !.savePath = <<>>], procs.init)

\* C25: two invocations of fetchSource that share the source cache and save
\* under different names: under every interleaving of their system calls
\* (the stats, the creation of the missing cache directory and its parents
\* by both, create, the writes of the copy, the digest check) an invocation
\* that has returned returned what it returns when run alone, its savePath
\* is the same and the file at its savePath is the file it leaves when run
\* alone; when both have returned, the cache holds what the two runs leave.
C25_ConcurrentFetchesOfDistinctNames ==
    /\ \A p \in Procs :
          procs.proc[p].pc = "done" =>
              /\ procs.proc[p].err = Alone(p).err
              /\ Sources[p].savePath = Alone(p).source.savePath
              /\ EntryAt(fs, Join(sourceCache, Base(Sources[p].LocalName)))
                    = EntryAt(Alone(p).fs, Join(sourceCache, Base(Sources[p].LocalName)))
    /\ (\A p \in Procs : procs.proc[p].pc = "done") =>
          /\ DOMAIN fs = DOMAIN Alone(1).fs \cup DOMAIN Alone(2).fs
          /\ \A q \in DOMAIN fs :
                fs[q] = IF q \in DOMAIN Alone(1).fs THEN Alone(1).fs[q] ELSE Alone(2).fs[q]

\* Both invocations found the cache directory missing, one met EEXIST when
\* making it, and both have fetched and verified their file
C25_Witness ==
    /\ pc = "concurrent"
    /\ \A p \in Procs : procs.proc[p].pc = "done" /\ procs.proc[p].err = NoErr
    /\ \E p \in Procs : procs.proc[p].errno = "EEXIST"
    /\ ~Exists(procs.init, <<"home">>)
    /\ fs[<<"home", ".mere", "src", "a">>] = File("dirTar")
    /\ fs[<<"home", ".mere", "src", "b">>] = File("flatTar")

----------------------------------------------------------------------------
(* The build context, checked under SpecContext *)

\* The build context by the entries of workingDir/build themselves: the
\* single entry when it is a directory, workingDir/build otherwise
ContextByEntries(f, wd) ==
    LET files == ReadDir(f, Join(wd, build))
    IN  IF Cardinality(files) = 1 /\ IsDir(f, CHOOSE p \in files : TRUE)
        THEN CHOOSE p \in files : TRUE
        ELSE Join(wd, build)

\* C26: after the extraction of sources[0] the build context is the single
\* entry of workingDir/build when that entry is a directory, and
\* workingDir/build in every other case (no sources, no or several entries,
\* a single file, a single link, dangling or not); setupBuildSteps gets past
\* the choice in each of them; the context is at most one level below
\* workingDir/build; no archive but sources[0] is extracted.
C26_BuildContextAfterExtraction ==
    /\ pc # "panicked"
    /\ pc = "symlinks" => buildContext = ContextByEntries(fs, workingDir)
    /\ workingDir # <<>> =>
          /\ IsPrefix(Join(workingDir, build), buildContext)
          /\ Len(buildContext) <= Len(workingDir) + 2
    /\ \A k \in 1..Len(log) :
          log[k].op = "extractArchive" =>
              /\ log[k].file = Sources[1].savePath
              /\ \A j \in 1..Len(log) : log[j].op = "extractArchive" => j = k

----------------------------------------------------------------------------
(* The links of the source directory, checked under Spec *)

\* The place of the link of a source in the source directory
LinkName(source, wd) == Join(Join(wd, src), Base(source.savePath))

\* C27: when setupBuildSteps succeeded, workingDir/source/basename(savePath)
\* is a link to savePath for every source, the primary archive included; the
\* links are made after the extraction and before the first stage (none is
\* there when the extraction ends); when a link fails setupBuildSteps returns
\* that error, the sources before it are linked, it and the later ones are
\* not, and no stage is executed.
C27_SourcesAreLinkedBeforeTheStages ==
    /\ (SetupSucceeded /\ pc \in {"stages", "returned"}) =>
          \A i \in 1..Len(Sources) :
              EntryAt(fs, LinkName(Sources[i], workingDir)) = Link(Sources[i].savePath)
    /\ pc = "symlinks" =>
          /\ ReadDir(fs, Join(workingDir, src)) = {}
          /\ Len(Sources) > 0 => \E k \in 1..Len(log) : log[k].op = "extractArchive"
    /\ \A k \in 1..Len(log) :
          log[k].op = "setupSymlinks" =>
              /\ \A j \in 1..Len(log) :
                    /\ log[j].op = "extractArchive" => j < k
                    /\ log[j].op = "executeStage" => j > k /\ ~IsErr(log[k].err)
              /\ (IsErr(log[k].err) /\ pc = "returned") =>
                    /\ result = log[k].err
                    /\ log[k].linked < Len(Sources)
                    /\ ReadDir(fs, Join(workingDir, src))
                          = {LinkName(Sources[i], workingDir) : i \in 1..log[k].linked}
                    /\ \A i \in 1..log[k].linked :
                          fs[LinkName(Sources[i], workingDir)] = Link(Sources[i].savePath)

\* A build of two sources is at its stages with both linked
C27_Witness ==
    /\ pc = "stages"
    /\ Len(Sources) = 2
    /\ Cardinality(ReadDir(fs, Join(workingDir, src))) = 2
    /\ \E k \in 1..Len(log) : log[k].op = "extractArchive" /\ ~IsErr(log[k].err)

----------------------------------------------------------------------------
(* Sources with the same name in the cache, checked under Spec *)

\* Two sources of the recipe have the same basename of LocalName (the local
\* name, or the path of the URL when there is none)
SameCacheName(i, j) ==
    /\ i < j
    /\ Base(Sources[i].LocalName) = Base(Sources[j].LocalName)

\* C30: a recipe with two sources of the same cache basename never builds:
\* buildSteps returns an error.  When the digests of the two differ, a fetch
\* has failed (the two share one savePath, and the file there cannot have
\* both digests); when every source was fetched and verified and the working
\* directory and the extraction were fine, the link of the second collides
\* with the link of the first and setupSymlinks fails.
C30_SameCacheNameNeverBuilds ==
    (pc = "returned" /\ \E i, j \in 1..Len(Sources) : SameCacheName(i, j)) =>
        /\ IsErr(result)
        /\ (\E i, j \in 1..Len(Sources) : SameCacheName(i, j) /\ Sources[i].B3Sum # Sources[j].B3Sum)
              => Len(errors) # 0
        /\ \A k \in 1..Len(log) :
              log[k].op = "setupSymlinks" =>
                  /\ IsErr(log[k].err)
                  /\ result = log[k].err
                  /\ \E i, j \in 1..Len(Sources) :
                        /\ SameCacheName(i, j)
                        /\ Sources[i].savePath = Sources[j].savePath
                        /\ log[k].linked = j - 1

\* Two sources of the same name and digest were fetched and verified, and
\* the build returned the error of the second link
C30_Witness ==
    /\ pc = "returned"
    /\ Len(Sources) = 2
    /\ SameCacheName(1, 2)
    /\ Sources[1].URL # Sources[2].URL
    /\ errors = <<>>
    /\ result = Err("symlink")
    /\ \E k \in 1..Len(log) : log[k].op = "setupSymlinks" /\ log[k].linked = 1

----------------------------------------------------------------------------
(* renderAll, checked under SpecRender *)

\* The fields a template can name, with the values a rendering sees: those
\* of the Spec as read, but for the scripts in done, which are as they are
\* after the call
SeenBy(read, now, done) ==
    [x \in TextFields |-> IF x \in done THEN now[x] ELSE read[x]]

\* The text of a template with every action replaced, once, by the value it
\* names; the empty text for a template that fails
Expand(v, seen) ==
    IF \E n \in 1..Len(v) : v[n] = Unparseable \/ (IsAction(v[n]) /\ FieldOf(v[n]) \notin TextFields)
    THEN <<>>
    ELSE Concat([n \in 1..Len(v) |-> IF IsAction(v[n]) THEN seen[FieldOf(v[n])] ELSE <<v[n]>>])

Fails(v) ==
    \E n \in 1..Len(v) : v[n] = Unparseable \/ (IsAction(v[n]) /\ FieldOf(v[n]) \notin TextFields)

\* The templates of a Spec in the order of rendering
RenderOrder(read, sources) ==
    [k \in 1..Len(sources) |-> sources[k].URL]
    \o Concat([k \in 1..Len(read.Packages) |-> read.Packages[k].Files])
    \o <<read.Build, read.Test, read.Install>>

\* C28: after renderAll each URL and each file of a package is its template
\* expanded with the fields as read; build is expanded with the fields as
\* read (a reference to test or install, or to build itself, gives the
\* template text), test with the rendered build, install with the rendered
\* build and test; what an action put in is not expanded again; the errors
\* come in the order urls, files, build, test, install, one for each
\* template that fails; every other field of the recipe and of its sources
\* and packages is as it was.
C28_RenderAllInOrderInPlace ==
    pc = "rendered" =>
        LET read == log[1].recipe
            was == log[1].sources
        IN  /\ Len(Sources) = Len(was)
            /\ \A k \in 1..Len(was) :
                  Sources[k] = [was[k] EXCEPT !.URL = Expand(was[k].URL, SeenBy(read, recipe, {}))]
            /\ Len(recipe.Packages) = Len(read.Packages)
            /\ \A k \in 1..Len(read.Packages) :
                  /\ recipe.Packages[k].Name = read.Packages[k].Name
                  /\ Len(recipe.Packages[k].Files) = Len(read.Packages[k].Files)
                  /\ \A j \in 1..Len(read.Packages[k].Files) :
                        recipe.Packages[k].Files[j]
                          = Expand(read.Packages[k].Files[j], SeenBy(read, recipe, {}))
            /\ recipe.Build = Expand(read.Build, SeenBy(read, recipe, {}))
            /\ recipe.Test = Expand(read.Test, SeenBy(read, recipe, {"Build"}))
            /\ recipe.Install = Expand(read.Install, SeenBy(read, recipe, {"Build", "Test"}))
            /\ \A x \in {"Name", "Description", "Home", "Version", "Release", "BuildDeps"} :
                  recipe[x] = read[x]
            /\ LET failing == SelectSeq(RenderOrder(read, was), Fails)
               IN  IF failing = <<>> THEN result = NoErr
                   ELSE /\ result.kind = "rendering error"
                        /\ Len(result.errmsgs) = Len(failing)
                        /\ \A k \in 1..Len(failing) :
                              result.errmsgs[k] = render(read, failing[k]).err

\* test names build and install: it got the rendered build and the
\* template text of install, and the name put into build stayed as it is
C28_Witness ==
    /\ pc = "rendered"
    /\ result = NoErr
    /\ log[1].recipe.Build = <<"{{.Test}}", "t">>
    /\ log[1].recipe.Test = <<"{{.Install}}">>
    /\ log[1].recipe.Install = <<"{{.Build}}">>
    /\ recipe.Build = <<"{{.Install}}", "t">>
    /\ recipe.Test = <<"{{.Build}}">>
    /\ recipe.Install = <<"{{.Install}}", "t">>
    /\ Len(Sources) > 0

=============================================================================
